---- MODULE Spec2Model ----
(***************************************************************************)
(* Digit Duel: the computer opponent (class AI) and the match engine       *)
(* (class Game).                                                           *)
(*                                                                         *)
(* A JavaScript string is modelled as the sequence of its characters, each *)
(* character a one-character TLA+ string, so that formatting a count into  *)
(* a feedback text and parsing it back are computed character by           *)
(* character, as the code does.                                            *)
(***************************************************************************)
EXTENDS Integers, Sequences, FiniteSets, TLC

(***************************************************************************)
(* Bounds of the model.                                                    *)
(***************************************************************************)
\* a solver is built for every digit count N up to this one
MaxDigits == 2
\* the feedback functions are applied to all strings up to this length ...
MaxLen == 3
\* ... over this many digit characters ("0", "1", ...)
MaxProbeDigit == 2
\* Math.random() is drawn from the grid 0/RandomGrid .. (RandomGrid-1)/RandomGrid
RandomGrid == 2
\* number of direct updateKnowledge calls made on one solver ...
MaxCalls == 2
\* ... each with one of this many guesses
MaxCallGuesses == 2
\* number of guesses the player makes against the AI in one explored match
MaxRounds == 2
\* number of updates made on a solver before it is asked for a guess
MaxUpdates == 1
\* the guesses of a match on the clock are submitted in its last seconds
LastSeconds == 2
\* number of guesses submitted first in one match on the clock
MaxTimedGuesses == 1
\* number of matches played one after the other
MaxMatches == 2

(***************************************************************************)
(* Characters, strings and numbers.                                        *)
(***************************************************************************)
\* the literal '0123456789'
DIGITS == <<"0", "1", "2", "3", "4", "5", "6", "7", "8", "9">>

DigitChars == {DIGITS[i] : i \in 1..Len(DIGITS)}

\* NaN, which equals no count
NaN == 0 - 1

null == "null"

\* the null result of String.prototype.match
noMatch == <<>>

Min(x, y) == IF x < y THEN x ELSE y

\* Number.prototype.toString of a non-negative integer, radix ten
RECURSIVE toString(_)
toString(n) ==
    IF n < 10 THEN <<DIGITS[n + 1]>>
    ELSE Append(toString(n \div 10), DIGITS[(n % 10) + 1])

\* String.prototype.padStart
RECURSIVE padStart(_, _, _)
padStart(s, targetLength, padChar) ==
    IF Len(s) >= targetLength THEN s
    ELSE padStart(<<padChar>> \o s, targetLength, padChar)

\* String.prototype.slice(from, to), zero-based, end exclusive
slice(s, from, to) == SubSeq(s, from + 1, Min(to, Len(s)))

\* String.prototype.includes
includes(text, needle) ==
    \E i \in 0..(Len(text) - Len(needle)) :
        SubSeq(text, i + 1, i + Len(needle)) = needle

\* the longest run of decimal digits of s that starts at position i
RECURSIVE digitRun(_, _)
digitRun(s, i) ==
    IF i > Len(s) \/ s[i] \notin DigitChars THEN <<>>
    ELSE <<s[i]>> \o digitRun(s, i + 1)

\* text.match(/(\d+)/): the leftmost, longest run of digits, or null
matchDigits(text) ==
    IF \E i \in 1..Len(text) : text[i] \in DigitChars
    THEN digitRun(text, CHOOSE i \in 1..Len(text) :
                            /\ text[i] \in DigitChars
                            /\ \A j \in 1..(i - 1) : text[j] \notin DigitChars)
    ELSE noMatch

digitValue(c) == (CHOOSE i \in 1..Len(DIGITS) : DIGITS[i] = c) - 1

RECURSIVE digitsToNumber(_)
digitsToNumber(s) ==
    IF s = <<>> THEN 0
    ELSE 10 * digitsToNumber(SubSeq(s, 1, Len(s) - 1)) + digitValue(s[Len(s)])

\* parseInt of a string without sign or blanks: its leading digits, or NaN
parseInt(s) ==
    IF digitRun(s, 1) = <<>> THEN NaN ELSE digitsToNumber(digitRun(s, 1))

(***************************************************************************)
(* Feedback texts.                                                         *)
(***************************************************************************)
\* 'Correct! ' followed by the dart emoji, written here as one character
CorrectText == <<"C", "o", "r", "r", "e", "c", "t", "!", " ", "U+1F3AF">>

NoCorrectDigitsText ==
    <<"N", "o", " ", "c", "o", "r", "r", "e", "c", "t", " ",
      "d", "i", "g", "i", "t", "s", ".">>

AllCorrectText ==
    <<"A", "l", "l", " ", "d", "i", "g", "i", "t", "s", " ",
      "c", "o", "r", "r", "e", "c", "t", " ", "b", "u", "t", " ",
      "w", "r", "o", "n", "g", " ",
      "a", "r", "r", "a", "n", "g", "e", "m", "e", "n", "t", ".">>

\* `${correctCount} digit${correctCount > 1 ? 's' : ''} correct.`
CountText(correctCount) ==
    toString(correctCount) \o <<" ", "d", "i", "g", "i", "t">>
        \o (IF correctCount > 1 THEN <<"s">> ELSE <<>>)
        \o <<" ", "c", "o", "r", "r", "e", "c", "t", ".">>

NoCorrectNeedle == <<"N", "o", " ", "c", "o", "r", "r", "e", "c", "t">>

AllCorrectNeedle ==
    <<"A", "l", "l", " ", "d", "i", "g", "i", "t", "s", " ",
      "c", "o", "r", "r", "e", "c", "t">>

WIN == <<"W", "I", "N">>

(***************************************************************************)
(* The feedback functions.                                                 *)
(***************************************************************************)
\* the frequency map built by `freq[d] = (freq[d] || 0) + 1` over a string
frequencyMap(s) ==
    [d \in {s[i] : i \in DOMAIN s} |->
        Cardinality({i \in DOMAIN s : s[i] = d})]

\* countIntersection with the guess's own count added for every digit the
\* secret holds, where the code adds the smaller of the two counts
RECURSIVE countIntersection_guessCount(_, _, _)
countIntersection_guessCount(keys, guessFreq, secretFreq) ==
    IF keys = {} THEN 0
    ELSE LET d == CHOOSE k \in keys : TRUE
         IN  (IF d \in DOMAIN secretFreq THEN guessFreq[d] ELSE 0)
             + countIntersection_guessCount(keys \ {d}, guessFreq, secretFreq)

\* `for (const d in guessFreq) if (secretFreq[d]) correctCount += Math.min(..)`
RECURSIVE countIntersection(_, _, _)
countIntersection(keys, guessFreq, secretFreq) ==
    IF keys = {} THEN 0
    ELSE LET d == CHOOSE k \in keys : TRUE
         IN  (IF d \in DOMAIN secretFreq
              THEN Min(guessFreq[d], secretFreq[d]) ELSE 0)
             + countIntersection(keys \ {d}, guessFreq, secretFreq)

\* simulateFeedback answering WIN as soon as every digit is shared
simulateFeedback_winOnAllDigits(guess, secret) ==
    LET secretFreq == frequencyMap(secret)
        guessFreq == frequencyMap(guess)
        correctCount ==
            countIntersection(DOMAIN guessFreq, guessFreq, secretFreq)
    IN  IF correctCount = Len(secret) THEN WIN ELSE toString(correctCount)

\* AI.simulateFeedback
simulateFeedback(guess, secret) ==
    IF guess = secret THEN WIN
    ELSE LET secretFreq == frequencyMap(secret)
             guessFreq == frequencyMap(guess)
             correctCount ==
                 countIntersection(DOMAIN guessFreq, guessFreq, secretFreq)
         IN  toString(correctCount)

\* calculateFeedback without the test `correctCount === this.digits`
calculateFeedback_noWrongArrangement(dg, guess, secret) ==
    IF guess = secret THEN CorrectText
    ELSE LET secretFreq == frequencyMap(secret)
             guessFreq == frequencyMap(guess)
             correctCount ==
                 countIntersection(DOMAIN guessFreq, guessFreq, secretFreq)
         IN  IF correctCount = 0 THEN NoCorrectDigitsText
             ELSE CountText(correctCount)

\* calculateFeedback counting the digits of the guess that occur in the
\* secret, whatever their frequency there
calculateFeedback_guessDigitsInSecret(dg, guess, secret) ==
    IF guess = secret THEN CorrectText
    ELSE LET correctCount ==
                 Cardinality({i \in DOMAIN guess :
                                 \E j \in DOMAIN secret : secret[j] = guess[i]})
         IN  IF correctCount = 0 THEN NoCorrectDigitsText
             ELSE IF correctCount = dg THEN AllCorrectText
             ELSE CountText(correctCount)

\* Game.calculateFeedback; dg is this.digits
calculateFeedback(dg, guess, secret) ==
    IF guess = secret THEN CorrectText
    ELSE LET secretFreq == frequencyMap(secret)
             guessFreq == frequencyMap(guess)
             correctCount ==
                 countIntersection(DOMAIN guessFreq, guessFreq, secretFreq)
         IN  IF correctCount = 0 THEN NoCorrectDigitsText
             ELSE IF correctCount = dg THEN AllCorrectText
             ELSE CountText(correctCount)

\* the parsing without the branch for 'All digits correct'
parseFeedback_noAllCorrect(dg, feedback) ==
    IF includes(feedback, NoCorrectNeedle) THEN 0
    ELSE LET match == matchDigits(feedback)
         IN  IF match # noMatch THEN parseInt(match) ELSE 0

\* AI.updateKnowledge, the parsing of the feedback text into correctCount
parseFeedback(dg, feedback) ==
    IF includes(feedback, NoCorrectNeedle) THEN 0
    ELSE IF includes(feedback, AllCorrectNeedle) THEN dg
    ELSE LET match == matchDigits(feedback)
         IN  IF match # noMatch THEN parseInt(match) ELSE 0

(***************************************************************************)
(* Construction of the candidate space.                                    *)
(***************************************************************************)
RECURSIVE generatePermutations(_, _, _)
RECURSIVE permutationLoop(_, _, _, _)
\* AI.generatePermutations: the strings the call pushes onto results, in the
\* order it pushes them.  A call that has fewer characters available than it
\* still needs pushes nothing, since every call below it runs out of
\* characters before current reaches length dg; that result is returned at
\* once instead of walking the subtree.
generatePermutations(dg, current, available) ==
    IF Len(current) = dg THEN <<current>>
    ELSE IF Len(current) + Len(available) < dg THEN <<>>
    ELSE permutationLoop(dg, current, available, 0)

\* the for loop of AI.generatePermutations, from index i on
permutationLoop(dg, current, available, i) ==
    IF i >= Len(available) THEN <<>>
    ELSE LET newCurrent == Append(current, available[i + 1])
             newAvailable == slice(available, 0, i)
                                 \o slice(available, i + 1, Len(available))
         IN  generatePermutations(dg, newCurrent, newAvailable)
                 \o permutationLoop(dg, current, available, i + 1)

\* generateAllCandidates without the padding of short numerals
generateAllCandidates_noPad(dg, dup) ==
    IF dup
    THEN LET max == 10 ^ dg
         IN  [k \in 1..max |-> toString(k - 1)]
    ELSE generatePermutations(dg, <<>>, DIGITS)

\* AI.generateAllCandidates
generateAllCandidates(dg, dup) ==
    IF dup
    THEN LET max == 10 ^ dg
         IN  [k \in 1..max |-> padStart(toString(k - 1), dg, "0")]
    ELSE generatePermutations(dg, <<>>, DIGITS)


(***************************************************************************)
(* Narrowing the candidate space.                                          *)
(***************************************************************************)
\* the predicate of the filter in AI.updateKnowledge
\* the filter predicate without its two tests for the guess itself
keepCandidate_countOnly(candidate, guess, correctCount) ==
    LET shared == countIntersection(DOMAIN frequencyMap(guess),
                                    frequencyMap(guess), frequencyMap(candidate))
    IN  shared = correctCount

\* the predicate of the filter of AI.updateKnowledge
keepCandidate(candidate, guess, correctCount) ==
    IF candidate = guess THEN FALSE
    ELSE LET simulatedFeedback == simulateFeedback(guess, candidate)
         IN  IF simulatedFeedback = WIN THEN FALSE
             ELSE parseInt(simulatedFeedback) = correctCount

\* the filter, except that an exact-match feedback makes the guess the one
\* candidate
filterCandidates_winKeepsGuess(cands, dg, guess, feedback) ==
    LET correctCount == parseFeedback(dg, feedback)
        keep(candidate) == keepCandidate(candidate, guess, correctCount)
    IN  IF feedback = CorrectText THEN <<guess>> ELSE SelectSeq(cands, keep)

\* AI.updateKnowledge: this.candidates after the call
filterCandidates(cands, dg, guess, feedback) ==
    LET correctCount == parseFeedback(dg, feedback)
        keep(candidate) == keepCandidate(candidate, guess, correctCount)
    IN  SelectSeq(cands, keep)

\* the history with the new entry put in front (unshift for push)
pushHistory_unshift(history, guess, feedback) ==
    <<[guess |-> guess, feedback |-> feedback]>> \o history

\* AI.updateKnowledge: this.guessHistory after the call
pushHistory(history, guess, feedback) ==
    Append(history, [guess |-> guess, feedback |-> feedback])

(***************************************************************************)
(* Random draws.  Math.random() yields r / RandomGrid for a draw r of      *)
(* 0 .. RandomGrid - 1.                                                    *)
(***************************************************************************)
Draws == 0..(RandomGrid - 1)

\* Math.floor(Math.random() * n) for the draw r
randomIndex(r, n) == (r * n) \div RandomGrid

\* Math.random() < 0.3 for the draw r
belowThreeTenths(r) == 10 * r < 3 * RandomGrid

\* the characters of a string, as the Set `used` of randomGuess holds them
charsOf(s) == {s[i] : i \in DOMAIN s}

\* randomGuess with a loop that accepts a drawn digit even when it is used
RECURSIVE randomGuessFrom_ignoresUsed(_, _, _, _)
randomGuessFrom_ignoresUsed(dg, dup, i, result) ==
    IF i >= dg THEN {result}
    ELSE UNION { randomGuessFrom_ignoresUsed(dg, dup, i + 1, result \o digit) :
                   digit \in { toString(randomIndex(r, 10)) : r \in Draws } }

\* AI.randomGuess from position i on: every string the loops can return.
\* A draw that repeats a used digit is drawn again, so the inner loop ends
\* with any drawn digit that is not used; when every digit the draws can
\* give is used, it never ends and the call returns nothing.
RECURSIVE randomGuessFrom(_, _, _, _)
randomGuessFrom(dg, dup, i, result) ==
    IF i >= dg THEN {result}
    ELSE UNION { randomGuessFrom(dg, dup, i + 1, result \o digit) :
                   digit \in { toString(randomIndex(r, 10)) : r \in
                                 { q \in Draws :
                                     ~ (~dup /\ toString(randomIndex(q, 10))[1]
                                                   \in charsOf(result)) } } }

\* AI.randomGuess: the strings it can return
randomGuess(dg, dup) == randomGuessFrom(dg, dup, 0, <<>>)

(***************************************************************************)
(* Choosing a guess.                                                       *)
(***************************************************************************)
\* Infinity, written as a number above every tally of candidates
Infinity == 2147483647

\* the tally of minimaxGuess taking the smallest count for the largest
worstCaseOf_smallest(guess, cands) ==
    LET feedbackOf ==
            <<>> \o [k \in DOMAIN cands |-> simulateFeedback(guess, cands[k])]
        values ==
            { Cardinality({k \in DOMAIN cands : feedbackOf[k] = f}) :
                f \in {feedbackOf[k] : k \in DOMAIN cands} }
    IN  CHOOSE m \in values : \A v \in values : m <= v

\* Math.max(...Object.values(feedbackCounts)) for one guess of minimaxGuess
worstCaseOf(guess, cands) ==
    LET \* the feedback of every candidate, as an explicit sequence
        feedbackOf ==
            <<>> \o [k \in DOMAIN cands |-> simulateFeedback(guess, cands[k])]
        \* Object.values(feedbackCounts)
        values ==
            { Cardinality({k \in DOMAIN cands : feedbackOf[k] = f}) :
                f \in {feedbackOf[k] : k \in DOMAIN cands} }
    IN  CHOOSE m \in values : \A v \in values : v <= m

\* the loop of minimaxGuess with `<=` for `<`: a later guess with an equal
\* worst case replaces the best one
RECURSIVE minimaxLoop_lastOfEqual(_, _, _, _, _)
minimaxLoop_lastOfEqual(samplesToEvaluate, cands, i, bestGuess, bestWorstCase) ==
    IF i > Len(samplesToEvaluate) THEN bestGuess
    ELSE LET guess == samplesToEvaluate[i]
             worstCase == worstCaseOf(guess, cands)
         IN  IF worstCase <= bestWorstCase
             THEN minimaxLoop_lastOfEqual(samplesToEvaluate, cands, i + 1,
                                          guess, worstCase)
             ELSE minimaxLoop_lastOfEqual(samplesToEvaluate, cands, i + 1,
                                          bestGuess, bestWorstCase)

\* the loop of AI.minimaxGuess over samplesToEvaluate, from index i on
RECURSIVE minimaxLoop(_, _, _, _, _)
minimaxLoop(samplesToEvaluate, cands, i, bestGuess, bestWorstCase) ==
    IF i > Len(samplesToEvaluate) THEN bestGuess
    ELSE LET guess == samplesToEvaluate[i]
             worstCase == worstCaseOf(guess, cands)
         IN  IF worstCase < bestWorstCase
             THEN minimaxLoop(samplesToEvaluate, cands, i + 1, guess, worstCase)
             ELSE minimaxLoop(samplesToEvaluate, cands, i + 1,
                              bestGuess, bestWorstCase)

\* AI.sampleArray: the comparator of the sort is random, so the sort may
\* leave the copy in any order; the model takes the rotations of arr, one for
\* each draw, and returns the first n elements.
sampleArray(arr, n, r) ==
    LET k == randomIndex(r, Len(arr))
        shuffled == SubSeq(arr, k + 1, Len(arr)) \o SubSeq(arr, 1, k)
    IN  slice(shuffled, 0, n)

\* AI.minimaxGuess: the guesses it can return
minimaxGuess(cands) ==
    IF Len(cands) > 50
    THEN { minimaxLoop(sampleArray(cands, 50, r), cands, 1, cands[1], Infinity) :
             r \in Draws }
    ELSE { minimaxLoop(cands, cands, 1, cands[1], Infinity) }

\* AI.getOptimalFirstGuess
getOptimalFirstGuess(dg) ==
    IF dg <= 4 THEN slice(<<"1", "2", "3", "4">>, 0, dg)
    ELSE IF dg <= 6 THEN slice(<<"1", "2", "3", "4", "5", "6">>, 0, dg)
    ELSE IF dg <= 8
         THEN slice(<<"1", "2", "3", "4", "5", "6", "7", "8">>, 0, dg)
    ELSE slice(<<"1", "2", "3", "4", "5", "6", "7", "8", "9", "0">>, 0, dg)

\* mediumGuess with the random branch of easyGuess in front
mediumGuess_randomBranch(cands, dg, dup) ==
    randomGuess(dg, dup)
        \cup (IF Len(cands) = 0 THEN {}
              ELSE { cands[randomIndex(r, Len(cands)) + 1] : r \in Draws })

\* AI.mediumGuess: the guesses it can return
mediumGuess(cands, dg, dup) ==
    IF Len(cands) = 0 THEN randomGuess(dg, dup)
    ELSE { cands[randomIndex(r, Len(cands)) + 1] : r \in Draws }

\* AI.easyGuess: the guesses it can return
easyGuess(cands, dg, dup) ==
    (IF \E r \in Draws : belowThreeTenths(r) THEN randomGuess(dg, dup) ELSE {})
    \cup
    (IF \E r \in Draws : ~belowThreeTenths(r)
     THEN { cands[randomIndex(r, Len(cands)) + 1] : r \in Draws } ELSE {})

\* hardGuess opening with the fixed string from 100 candidates on
hardGuess_openerFrom100(cands, history, dg, dup) ==
    IF Len(cands) = 0 THEN randomGuess(dg, dup)
    ELSE IF Len(cands) = 1 THEN {cands[1]}
    ELSE IF Len(history) = 0 /\ Len(cands) >= 100
         THEN {getOptimalFirstGuess(dg)}
    ELSE IF Len(cands) <= 500 THEN minimaxGuess(cands)
    ELSE mediumGuess(cands, dg, dup)

\* hardGuess falling back to a random string
hardGuess_randomFallback(cands, history, dg, dup) ==
    IF Len(cands) = 0 THEN randomGuess(dg, dup)
    ELSE IF Len(cands) = 1 THEN {cands[1]}
    ELSE IF Len(history) = 0 /\ Len(cands) > 100 THEN {getOptimalFirstGuess(dg)}
    ELSE IF Len(cands) <= 500 THEN minimaxGuess(cands)
    ELSE randomGuess(dg, dup)

\* AI.hardGuess: the guesses it can return
hardGuess(cands, history, dg, dup) ==
    IF Len(cands) = 0 THEN randomGuess(dg, dup)
    ELSE IF Len(cands) = 1 THEN {cands[1]}
    ELSE IF Len(history) = 0 /\ Len(cands) > 100 THEN {getOptimalFirstGuess(dg)}
    ELSE IF Len(cands) <= 500 THEN minimaxGuess(cands)
    ELSE mediumGuess(cands, dg, dup)

\* makeGuess with easyGuess under medium
makeGuess_mediumAsEasy(cands, history, dg, dup, diff) ==
    IF Len(cands) = 0 THEN randomGuess(dg, dup)
    ELSE CASE diff = "easy" -> easyGuess(cands, dg, dup)
           [] diff = "medium" -> easyGuess(cands, dg, dup)
           [] diff = "hard" -> hardGuess(cands, history, dg, dup)
           [] OTHER -> mediumGuess(cands, dg, dup)

\* AI.makeGuess: the guesses it can return
makeGuess(cands, history, dg, dup, diff) ==
    IF Len(cands) = 0 THEN randomGuess(dg, dup)
    ELSE CASE diff = "easy" -> easyGuess(cands, dg, dup)
           [] diff = "medium" -> mediumGuess(cands, dg, dup)
           [] diff = "hard" -> hardGuess(cands, history, dg, dup)
           [] OTHER -> mediumGuess(cands, dg, dup)

(***************************************************************************)
(* What a call of makeGuess leaves in this.candidates.  No strategy        *)
(* assigns this.candidates or this.guessHistory; the one place that        *)
(* reorders an array is the sort of sampleArray.                           *)
(***************************************************************************)
\* the array passed to sampleArray after a call that sorts it in place
arrayAfterSample_sortInPlace(arr, n, r) ==
    LET k == randomIndex(r, Len(arr))
    IN  SubSeq(arr, k + 1, Len(arr)) \o SubSeq(arr, 1, k)

\* the array passed to sampleArray after the call: `[...arr].sort(...)`
\* sorts a copy, so arr itself keeps its contents and order
arrayAfterSample(arr, n, r) == arr

\* this.candidates after minimaxGuess
candidatesAfterMinimax(cands, r) ==
    IF Len(cands) > 50 THEN arrayAfterSample(cands, 50, r) ELSE cands

\* this.candidates after hardGuess
candidatesAfterHard(cands, history, r) ==
    IF Len(cands) = 0 THEN cands
    ELSE IF Len(cands) = 1 THEN cands
    ELSE IF Len(history) = 0 /\ Len(cands) > 100 THEN cands
    ELSE IF Len(cands) <= 500 THEN candidatesAfterMinimax(cands, r)
    ELSE cands

\* this.candidates after makeGuess
candidatesAfterGuess(cands, history, diff, r) ==
    IF Len(cands) = 0 THEN cands
    ELSE IF diff = "hard" THEN candidatesAfterHard(cands, history, r)
    ELSE cands

(***************************************************************************)
(* The match engine.                                                       *)
(***************************************************************************)
maxGuesses == 10

calculateGameTime_floors(dg, diff) ==
    LET baseTime == dg * 2
        tenths == IF diff = "easy" THEN 12 ELSE IF diff = "hard" THEN 8 ELSE 10
    IN  ((baseTime * tenths) \div 10) * 60

\* Game.calculateGameTime: Math.round(digits * 2 * multiplier) * 60, with the
\* multipliers 1.2, 1 and 0.8 written as tenths
calculateGameTime(dg, diff) ==
    LET baseTime == dg * 2
        tenths == IF diff = "easy" THEN 12 ELSE IF diff = "hard" THEN 8 ELSE 10
    IN  ((baseTime * tenths + 5) \div 10) * 60

\* Game.generateAISecret: the secrets it can return (the loops of randomGuess)
generateAISecret(dg, dup) == randomGuessFrom(dg, dup, 0, <<>>)

VARIABLES
    \* class AI (digits, allowDuplicates and difficulty are also Game's)
    digits, allowDuplicates, difficulty, candidates, guessHistory,
    \* class Game
    mode, playerSecret, opponentSecret, isPlayerTurn, playerGuesses,
    opponentGuesses, isGameOver, currentPlayer, player1Guesses,
    player2Guesses, timeRemaining, timerInterval,
    \* the setTimeout callback of handleAIGameGuess that has not run yet
    aiTurnPending,
    \* the results passed to onGameOver, in order
    gameOverCalls,
    \* the statistics kept in localStorage under Storage.STATS_KEY
    stats,
    \* the guess passed to the last onGuessResult or onOpponentGuess, and the
    \* side that made it
    lastGuess,
    \* what the last call of updateKnowledge gave its caller
    updateOutcome,
    \* the call of submitGuess made in the last step, where it is observed:
    \* the guess passed and the value returned
    submitResult,
    \* the run of AI.randomGuess under way: whether it is in its loops or has
    \* returned, its result so far and its set used
    randomLoop,
    \* the last comparison made through the feedback functions
    probe,
    \* the call of makeGuess made since the last update of the solver
    guessCall

\* no call of makeGuess made
NoGuessCall == [called |-> FALSE, returns |-> FALSE, value |-> <<>>]

\* no run of randomGuess under way
NoRandomLoop ==
    [running |-> FALSE, returned |-> FALSE, result |-> <<>>, used |-> {}]

\* no call of submitGuess observed
NoSubmit == [called |-> FALSE, guess |-> <<>>, returns |-> "undefined",
             error |-> ""]

\* no guess reported
NoGuess == [by |-> "none", guess |-> <<>>]

\* no call of updateKnowledge made
NoUpdate == [called |-> FALSE, returns |-> "undefined", throws |-> FALSE,
             logs |-> <<>>]

\* AI.updateKnowledge gives its caller nothing: it has no return statement,
\* no throw, sets no field besides guessHistory and candidates, and its one
\* console.log is commented out
updateKnowledgeOutcome ==
    [called |-> TRUE, returns |-> "undefined", throws |-> FALSE,
     logs |-> <<>>]

aiVars ==
    <<digits, allowDuplicates, difficulty, candidates, guessHistory,
      updateOutcome>>

gameVars ==
    <<mode, playerSecret, opponentSecret, isPlayerTurn, playerGuesses,
      opponentGuesses, isGameOver, currentPlayer, player1Guesses,
      player2Guesses, timeRemaining, timerInterval, aiTurnPending,
      gameOverCalls, stats, lastGuess>>

vars == <<aiVars, gameVars, probe, guessCall, submitResult, randomLoop>>

Difficulties == {"easy", "medium", "hard"}

\* all strings of length n over the characters chars
StringsOver(chars, n) == [1..n -> chars]

noRepeat(s) == \A i, j \in DOMAIN s : i # j => s[i] # s[j]

\* the digit counts of the explored matches
MatchDigits == 1..2

\* the digit keys the players of the explored matches press
InputDigits == {"0", "1"}

\* the strings a player may enter as a secret or a guess of n digits

InputStrings(n) == StringsOver(InputDigits, n)

\* Storage.getStats with nothing stored, and what Storage.resetStats saves
NoStats ==
    [wins |-> 0, losses |-> 0, draws |-> 0, gamesPlayed |-> 0,
     history |-> <<>>]

\* the entries Storage.addGameResult keeps in stats.history
HistoryLimit == 50

\* Storage.addGameResult(isWin, isDraw): the statistics it saves and
\* returns; an entry of the history is its result, newest first (its date is
\* read nowhere)
addGameResult(st, isWin, isDraw) ==
    LET result == IF isDraw THEN "draw" ELSE IF isWin THEN "win" ELSE "loss"
        history == <<result>> \o st.history
    IN  [wins |-> IF ~isDraw /\ isWin THEN st.wins + 1 ELSE st.wins,
         losses |-> IF ~isDraw /\ ~isWin THEN st.losses + 1 ELSE st.losses,
         draws |-> IF isDraw THEN st.draws + 1 ELSE st.draws,
         gamesPlayed |-> st.gamesPlayed + 1,
         history |-> IF Len(history) > HistoryLimit
                     THEN SubSeq(history, 1, HistoryLimit)
                     ELSE history]

\* App.onGameOver(result), the callback Game.endGame and Game.handleTimeout
\* call after Game.stop: it calls addGameResult with one argument, so isDraw
\* takes its default
onGameOver(result) ==
    /\ gameOverCalls' = Append(gameOverCalls, result)
    /\ stats' = addGameResult(stats, result.winner = "player", FALSE)

endGame_clockKeepsRunning(winner, pGuesses, oGuesses) ==
    /\ isGameOver' = TRUE
    /\ UNCHANGED timerInterval
    /\ onGameOver([winner |-> winner, reason |-> null,
                   totalGuesses |-> pGuesses + oGuesses])

\* Game.stop and Game.endGame(winner): the counters in the result are read
\* after the caller's updates, so the caller passes them
endGame(winner, pGuesses, oGuesses) ==
    /\ isGameOver' = TRUE
    /\ timerInterval' = null
    /\ onGameOver([winner |-> winner, reason |-> null,
                   totalGuesses |-> pGuesses + oGuesses])

\* Game.handleAIGameGuess
handleAIGameGuess(guess) ==
    LET isWin == guess = opponentSecret
    IN  /\ playerGuesses' = playerGuesses + 1
        /\ lastGuess' = [by |-> "player", guess |-> guess]
        /\ IF isWin
           THEN /\ endGame("player", playerGuesses + 1, opponentGuesses)
                /\ UNCHANGED <<isPlayerTurn, aiTurnPending>>
           ELSE IF playerGuesses + 1 >= maxGuesses
                   /\ opponentGuesses >= maxGuesses
           THEN /\ endGame("draw", playerGuesses + 1, opponentGuesses)
                /\ UNCHANGED <<isPlayerTurn, aiTurnPending>>
           ELSE /\ isPlayerTurn' = FALSE
                /\ aiTurnPending' = TRUE
                /\ UNCHANGED <<isGameOver, timerInterval, gameOverCalls, stats>>
        /\ UNCHANGED <<aiVars, mode, playerSecret, opponentSecret,
                       opponentGuesses, currentPlayer, player1Guesses,
                       player2Guesses, timeRemaining, probe, guessCall, randomLoop>>

handleFriendGuess_drawAtFirstLimit(guess) ==
    LET secretToGuess ==
            IF currentPlayer = 1 THEN opponentSecret ELSE playerSecret
        p1 == IF currentPlayer = 1 THEN player1Guesses + 1 ELSE player1Guesses
        p2 == IF currentPlayer = 1 THEN player2Guesses ELSE player2Guesses + 1
        isWin == guess = secretToGuess
    IN  /\ player1Guesses' = p1
        /\ player2Guesses' = p2
        /\ lastGuess' =
               [by |-> IF currentPlayer = 1 THEN "player" ELSE "opponent",
                guess |-> guess]
        /\ IF isWin
           THEN /\ endGame(IF currentPlayer = 1 THEN "player" ELSE "opponent",
                           playerGuesses, opponentGuesses)
                /\ UNCHANGED currentPlayer
           ELSE IF p1 >= maxGuesses \/ p2 >= maxGuesses
           THEN /\ endGame("draw", playerGuesses, opponentGuesses)
                /\ UNCHANGED currentPlayer
           ELSE /\ currentPlayer' = IF currentPlayer = 1 THEN 2 ELSE 1
                /\ UNCHANGED <<isGameOver, timerInterval, gameOverCalls, stats>>
        /\ UNCHANGED <<aiVars, mode, playerSecret, opponentSecret,
                       isPlayerTurn, playerGuesses, opponentGuesses,
                       timeRemaining, aiTurnPending, probe, guessCall, randomLoop>>

handleFriendGuess_player1Wins(guess) ==
    LET secretToGuess ==
            IF currentPlayer = 1 THEN opponentSecret ELSE playerSecret
        p1 == IF currentPlayer = 1 THEN player1Guesses + 1 ELSE player1Guesses
        p2 == IF currentPlayer = 1 THEN player2Guesses ELSE player2Guesses + 1
        isWin == guess = secretToGuess
    IN  /\ player1Guesses' = p1
        /\ player2Guesses' = p2
        /\ lastGuess' =
               [by |-> IF currentPlayer = 1 THEN "player" ELSE "opponent",
                guess |-> guess]
        /\ IF isWin
           THEN /\ endGame("player", playerGuesses, opponentGuesses)
                /\ UNCHANGED currentPlayer
           ELSE IF p1 >= maxGuesses /\ p2 >= maxGuesses
           THEN /\ endGame("draw", playerGuesses, opponentGuesses)
                /\ UNCHANGED currentPlayer
           ELSE /\ currentPlayer' = IF currentPlayer = 1 THEN 2 ELSE 1
                /\ UNCHANGED <<isGameOver, timerInterval, gameOverCalls, stats>>
        /\ UNCHANGED <<aiVars, mode, playerSecret, opponentSecret,
                       isPlayerTurn, playerGuesses, opponentGuesses,
                       timeRemaining, aiTurnPending, probe, guessCall, randomLoop>>

\* Game.handleFriendGuess
handleFriendGuess(guess) ==
    LET secretToGuess ==
            IF currentPlayer = 1 THEN opponentSecret ELSE playerSecret
        p1 == IF currentPlayer = 1 THEN player1Guesses + 1 ELSE player1Guesses
        p2 == IF currentPlayer = 1 THEN player2Guesses ELSE player2Guesses + 1
        isWin == guess = secretToGuess
    IN  /\ player1Guesses' = p1
        /\ player2Guesses' = p2
        /\ lastGuess' =
               [by |-> IF currentPlayer = 1 THEN "player" ELSE "opponent",
                guess |-> guess]
        /\ IF isWin
           THEN /\ endGame(IF currentPlayer = 1 THEN "player" ELSE "opponent",
                           playerGuesses, opponentGuesses)
                /\ UNCHANGED currentPlayer
           ELSE IF p1 >= maxGuesses /\ p2 >= maxGuesses
           THEN /\ endGame("draw", playerGuesses, opponentGuesses)
                /\ UNCHANGED currentPlayer
           ELSE /\ currentPlayer' = IF currentPlayer = 1 THEN 2 ELSE 1
                /\ UNCHANGED <<isGameOver, timerInterval, gameOverCalls, stats>>
        /\ UNCHANGED <<aiVars, mode, playerSecret, opponentSecret,
                       isPlayerTurn, playerGuesses, opponentGuesses,
                       timeRemaining, aiTurnPending, probe, guessCall, randomLoop>>

submitGuess_noTurnCheck(guess) ==
    /\ ~isGameOver
    /\ Len(guess) = digits
    /\ IF mode = "friend" THEN handleFriendGuess(guess)
       ELSE handleAIGameGuess(guess)

\* Game.submitGuess: it returns at once when the match is over, when the AI
\* is due to guess, and when the guess has the wrong length
submitGuess(guess) ==
    /\ ~isGameOver
    /\ ~(mode = "ai" /\ ~isPlayerTurn)
    /\ Len(guess) = digits
    /\ IF mode = "friend" THEN handleFriendGuess(guess)
       ELSE handleAIGameGuess(guess)

\* the values Game.submitGuess returns: nothing, or the error object of a
\* guess of the wrong length (the two handlers return nothing)
returnsUndefined(guess) ==
    [called |-> TRUE, guess |-> guess, returns |-> "undefined", error |-> ""]

returnsInvalid(guess) ==
    [called |-> TRUE, guess |-> guess, returns |-> "{valid: false}",
     error |-> "Invalid length"]

submitGuessCall_lengthUnchecked(guess) ==
    IF isGameOver \/ (mode = "ai" /\ ~isPlayerTurn)
    THEN /\ submitResult' = returnsUndefined(guess)
         /\ UNCHANGED <<aiVars, gameVars, probe, guessCall, randomLoop>>
    ELSE /\ IF mode = "friend" THEN handleFriendGuess(guess)
            ELSE handleAIGameGuess(guess)
         /\ submitResult' = returnsUndefined(guess)

\* Game.submitGuess with all of its returns, the value returned observed
submitGuessCall(guess) ==
    IF isGameOver \/ (mode = "ai" /\ ~isPlayerTurn)
    THEN /\ submitResult' = returnsUndefined(guess)
         /\ UNCHANGED <<aiVars, gameVars, probe, guessCall, randomLoop>>
    ELSE IF Len(guess) # digits
    THEN /\ submitResult' = returnsInvalid(guess)
         /\ UNCHANGED <<aiVars, gameVars, probe, guessCall, randomLoop>>
    ELSE /\ submitGuess(guess)
         /\ submitResult' = returnsUndefined(guess)

aiTurn_noWinCheck ==
    /\ aiTurnPending
    /\ aiTurnPending' = FALSE
    /\ IF isGameOver
       THEN UNCHANGED <<aiVars, isPlayerTurn, opponentGuesses, isGameOver,
                        timerInterval, gameOverCalls, stats, lastGuess>>
       ELSE \E aiGuess \in makeGuess(candidates, guessHistory, digits,
                                     allowDuplicates, difficulty) :
              LET feedback == calculateFeedback(digits, aiGuess, playerSecret)
              IN  /\ opponentGuesses' = opponentGuesses + 1
                  /\ guessHistory' = pushHistory(guessHistory, aiGuess, feedback)
                  /\ candidates' =
                         filterCandidates(candidates, digits, aiGuess, feedback)
                  /\ updateOutcome' = updateKnowledgeOutcome
                  /\ lastGuess' = [by |-> "opponent", guess |-> aiGuess]
                  /\ UNCHANGED <<digits, allowDuplicates, difficulty>>
                  /\ IF opponentGuesses + 1 >= maxGuesses
                             /\ playerGuesses >= maxGuesses
                     THEN /\ endGame("draw", playerGuesses,
                                     opponentGuesses + 1)
                          /\ UNCHANGED isPlayerTurn
                     ELSE /\ isPlayerTurn' = TRUE
                          /\ UNCHANGED <<isGameOver, timerInterval,
                                         gameOverCalls, stats>>
    /\ UNCHANGED <<mode, playerSecret, opponentSecret, playerGuesses,
                   currentPlayer, player1Guesses, player2Guesses,
                   timeRemaining, probe, guessCall, randomLoop>>
    /\ submitResult' = NoSubmit

aiTurn_drawPastLimit ==
    /\ aiTurnPending
    /\ aiTurnPending' = FALSE
    /\ IF isGameOver
       THEN UNCHANGED <<aiVars, isPlayerTurn, opponentGuesses, isGameOver,
                        timerInterval, gameOverCalls, stats, lastGuess>>
       ELSE \E aiGuess \in makeGuess(candidates, guessHistory, digits,
                                     allowDuplicates, difficulty) :
              LET feedback == calculateFeedback(digits, aiGuess, playerSecret)
                  isWin == aiGuess = playerSecret
              IN  /\ opponentGuesses' = opponentGuesses + 1
                  /\ guessHistory' = pushHistory(guessHistory, aiGuess, feedback)
                  /\ candidates' =
                         filterCandidates(candidates, digits, aiGuess, feedback)
                  /\ updateOutcome' = updateKnowledgeOutcome
                  /\ lastGuess' = [by |-> "opponent", guess |-> aiGuess]
                  /\ UNCHANGED <<digits, allowDuplicates, difficulty>>
                  /\ IF isWin
                     THEN /\ endGame("opponent", playerGuesses,
                                     opponentGuesses + 1)
                          /\ UNCHANGED isPlayerTurn
                     ELSE IF opponentGuesses + 1 > maxGuesses
                             /\ playerGuesses > maxGuesses
                     THEN /\ endGame("draw", playerGuesses,
                                     opponentGuesses + 1)
                          /\ UNCHANGED isPlayerTurn
                     ELSE /\ isPlayerTurn' = TRUE
                          /\ UNCHANGED <<isGameOver, timerInterval,
                                         gameOverCalls, stats>>
    /\ UNCHANGED <<mode, playerSecret, opponentSecret, playerGuesses,
                   currentPlayer, player1Guesses, player2Guesses,
                   timeRemaining, probe, guessCall, randomLoop>>
    /\ submitResult' = NoSubmit

aiTurn_ignoresGameOver ==
    /\ aiTurnPending
    /\ aiTurnPending' = FALSE
    /\ \E aiGuess \in makeGuess(candidates, guessHistory, digits,
                                     allowDuplicates, difficulty) :
              LET feedback == calculateFeedback(digits, aiGuess, playerSecret)
                  isWin == aiGuess = playerSecret
              IN  /\ opponentGuesses' = opponentGuesses + 1
                  /\ guessHistory' = pushHistory(guessHistory, aiGuess, feedback)
                  /\ candidates' =
                         filterCandidates(candidates, digits, aiGuess, feedback)
                  /\ updateOutcome' = updateKnowledgeOutcome
                  /\ lastGuess' = [by |-> "opponent", guess |-> aiGuess]
                  /\ UNCHANGED <<digits, allowDuplicates, difficulty>>
                  /\ IF isWin
                     THEN /\ endGame("opponent", playerGuesses,
                                     opponentGuesses + 1)
                          /\ UNCHANGED isPlayerTurn
                     ELSE IF opponentGuesses + 1 >= maxGuesses
                             /\ playerGuesses >= maxGuesses
                     THEN /\ endGame("draw", playerGuesses,
                                     opponentGuesses + 1)
                          /\ UNCHANGED isPlayerTurn
                     ELSE /\ isPlayerTurn' = TRUE
                          /\ UNCHANGED <<isGameOver, timerInterval,
                                         gameOverCalls, stats>>
    /\ UNCHANGED <<mode, playerSecret, opponentSecret, playerGuesses,
                   currentPlayer, player1Guesses, player2Guesses,
                   timeRemaining, probe, guessCall, randomLoop>>
    /\ submitResult' = NoSubmit

\* Game.aiTurn, run by the timeout that handleAIGameGuess set
aiTurn ==
    /\ aiTurnPending
    /\ aiTurnPending' = FALSE
    /\ IF isGameOver
       THEN UNCHANGED <<aiVars, isPlayerTurn, opponentGuesses, isGameOver,
                        timerInterval, gameOverCalls, stats, lastGuess>>
       ELSE \E aiGuess \in makeGuess(candidates, guessHistory, digits,
                                     allowDuplicates, difficulty) :
              LET feedback == calculateFeedback(digits, aiGuess, playerSecret)
                  isWin == aiGuess = playerSecret
              IN  /\ opponentGuesses' = opponentGuesses + 1
                  /\ guessHistory' = pushHistory(guessHistory, aiGuess, feedback)
                  /\ candidates' =
                         filterCandidates(candidates, digits, aiGuess, feedback)
                  /\ updateOutcome' = updateKnowledgeOutcome
                  /\ lastGuess' = [by |-> "opponent", guess |-> aiGuess]
                  /\ UNCHANGED <<digits, allowDuplicates, difficulty>>
                  /\ IF isWin
                     THEN /\ endGame("opponent", playerGuesses,
                                     opponentGuesses + 1)
                          /\ UNCHANGED isPlayerTurn
                     ELSE IF opponentGuesses + 1 >= maxGuesses
                             /\ playerGuesses >= maxGuesses
                     THEN /\ endGame("draw", playerGuesses,
                                     opponentGuesses + 1)
                          /\ UNCHANGED isPlayerTurn
                     ELSE /\ isPlayerTurn' = TRUE
                          /\ UNCHANGED <<isGameOver, timerInterval,
                                         gameOverCalls, stats>>
    /\ UNCHANGED <<mode, playerSecret, opponentSecret, playerGuesses,
                   currentPlayer, player1Guesses, player2Guesses,
                   timeRemaining, probe, guessCall, randomLoop>>
    /\ submitResult' = NoSubmit

\* Game.start: startTimer sets the interval
start ==
    /\ timerInterval = null
    /\ ~isGameOver
    /\ timerInterval' = "interval"
    /\ UNCHANGED <<aiVars, mode, playerSecret, opponentSecret, isPlayerTurn,
                   playerGuesses, opponentGuesses, isGameOver, currentPlayer,
                   player1Guesses, player2Guesses, timeRemaining,
                   aiTurnPending, gameOverCalls, stats, lastGuess, probe, guessCall, randomLoop>>
    /\ submitResult' = NoSubmit

handleTimeout_onlyStops ==
    /\ timerInterval' = null
    /\ UNCHANGED <<isGameOver, gameOverCalls, stats>>

\* Game.handleTimeout, with Game.stop: whoever isPlayerTurn names loses
handleTimeout ==
    LET winner == IF isPlayerTurn THEN "opponent" ELSE "player"
    IN  /\ timerInterval' = null
        /\ isGameOver' = TRUE
        /\ onGameOver([winner |-> winner, reason |-> "timeout",
                       totalGuesses |-> playerGuesses + opponentGuesses])

\* the callback of the interval set by Game.startTimer, run every second
\* until Game.stop clears the interval
tick ==
    /\ timerInterval # null
    /\ timeRemaining' = timeRemaining - 1
    /\ IF timeRemaining - 1 <= 0
       THEN handleTimeout
       ELSE UNCHANGED <<isGameOver, timerInterval, gameOverCalls, stats>>
    /\ UNCHANGED <<aiVars, mode, playerSecret, opponentSecret, isPlayerTurn,
                   playerGuesses, opponentGuesses, currentPlayer,
                   player1Guesses, player2Guesses, aiTurnPending, lastGuess,
                   probe, guessCall, randomLoop>>
    /\ submitResult' = NoSubmit

(***************************************************************************)
(* Comparisons made through the feedback functions.                        *)
(***************************************************************************)
\* the pairs (guess, secret) of the documented scenarios, pairs over three
\* digit values, and pairs of ten and twelve digits that share ten and eleven
\* digits
ScenarioPairs ==
    { <<<<"1", "2", "4", "3">>,
        <<"1", "2", "3", "4">>>>,
      <<<<"5", "1", "1">>,
        <<"1", "1", "5">>>>,
      <<<<"4", "5", "6">>,
        <<"1", "2", "3">>>>,
      <<<<"0", "1", "2">>,
        <<"0", "2", "1">>>>,
      <<<<"0", "0", "2">>,
        <<"0", "1", "2">>>>,
      <<<<"2", "0", "2">>,
        <<"2", "2", "0">>>>,
      <<<<"2", "1">>,
        <<"1", "2">>>>,
      <<<<"2">>,
        <<"2">>>>,
      <<<<"2", "2">>,
        <<"2", "0">>>>,
      <<<<"1", "2", "0">>,
        <<"2", "1", "0">>>>,
      <<<<"2", "0", "0">>,
        <<"0", "0", "2">>>>,
      <<<<"1", "2", "2">>,
        <<"2", "2", "1">>>>,
      <<<<"0", "1", "2", "3", "4", "5", "6", "7", "8", "9">>,
        <<"1", "2", "3", "4", "5", "6", "7", "8", "9", "0">>>>,
      <<<<"0", "1", "2", "3", "4", "5", "6", "7", "8", "9", "0", "0">>,
        <<"0", "1", "2", "3", "4", "5", "6", "7", "8", "9", "1", "1">>>>,
      <<<<"0", "1", "2", "3", "4", "5", "6", "7", "8", "9", "0", "0">>,
        <<"0", "1", "2", "3", "4", "5", "6", "7", "8", "9", "0", "1">>>> }

ProbeDigits == {DIGITS[i] : i \in 1..MaxProbeDigit}

\* the pairs (guess, secret) of length n that are compared
ProbePairs(n) ==
    (IF n <= MaxLen
     THEN StringsOver(ProbeDigits, n) \X StringsOver(ProbeDigits, n) ELSE {})
    \cup {p \in ScenarioPairs : Len(p[1]) = n}

ProbeLengths == (1..MaxLen) \cup {Len(p[1]) : p \in ScenarioPairs}

NoProbe ==
    [called |-> FALSE, guess |-> <<>>, secret |-> <<>>, text |-> <<>>,
     count |-> 0, simulated |-> <<>>, textBack |-> <<>>, simulatedBack |-> <<>>]

\* a Game of n digits whose feedback functions are about to be used; no
\* solver and no match are involved
InitFeedback ==
    /\ digits \in ProbeLengths
    /\ allowDuplicates = TRUE
    /\ difficulty = "medium"
    /\ candidates = <<>>
    /\ guessHistory = <<>>
    /\ mode = "none"
    /\ playerSecret = <<>>
    /\ opponentSecret = <<>>
    /\ isPlayerTurn = TRUE
    /\ playerGuesses = 0
    /\ opponentGuesses = 0
    /\ isGameOver = FALSE
    /\ currentPlayer = 1
    /\ player1Guesses = 0
    /\ player2Guesses = 0
    /\ timeRemaining = 0
    /\ timerInterval = null
    /\ aiTurnPending = FALSE
    /\ gameOverCalls = <<>>
    /\ stats = NoStats
    /\ probe = NoProbe
    /\ guessCall = NoGuessCall
    /\ lastGuess = NoGuess
    /\ updateOutcome = NoUpdate
    /\ submitResult = NoSubmit
    /\ randomLoop = NoRandomLoop

\* one comparison: Game.calculateFeedback(guess, secret) and
\* AI.simulateFeedback(guess, secret) are evaluated, the text is parsed as updateKnowledge parses it, and
\* both functions are evaluated with the arguments swapped
compare(guess, secret) ==
    /\ mode = "none"
    /\ ~probe.called
    /\ probe' =
         [called |-> TRUE, guess |-> guess, secret |-> secret,
          text |-> calculateFeedback(digits, guess, secret),
          count |-> parseFeedback(digits,
                                  calculateFeedback(digits, guess, secret)),
          simulated |-> simulateFeedback(guess, secret),
          textBack |-> calculateFeedback(digits, secret, guess),
          simulatedBack |-> simulateFeedback(secret, guess)]
    /\ UNCHANGED <<aiVars, gameVars, guessCall, submitResult,
                   randomLoop>>

NextFeedback == \E p \in ProbePairs(digits) : compare(p[1], p[2])

SpecFeedback == InitFeedback /\ [][NextFeedback]_vars

(***************************************************************************)
(* A solver used directly through updateKnowledge.                         *)
(***************************************************************************)
\* the digit counts and duplicate policies a solver is built with: every
\* count up to MaxDigits with either policy, and one more digit than there
\* are digit characters with duplicates disallowed
SolverConfigs ==
    ((1..MaxDigits) \X BOOLEAN) \cup {<<Len(DIGITS) + 1, FALSE>>}

\* the string of n digits 0123456789012...
cyclicDigits(n) == [i \in 1..n |-> DIGITS[((i - 1) % Len(DIGITS)) + 1]]

\* the k-th guess passed to updateKnowledge: 012..., its reverse, 000...,
\* 111..., and so on
callGuess(k, n) ==
    IF k = 1 THEN cyclicDigits(n)
    ELSE IF k = 2 THEN [i \in 1..n |-> cyclicDigits(n)[n + 1 - i]]
    ELSE [i \in 1..n |-> DIGITS[((k - 3) % Len(DIGITS)) + 1]]

CallGuesses(n) == {callGuess(k, n) : k \in 1..MaxCallGuesses}

\* the texts passed to updateKnowledge: those Game.calculateFeedback can
\* return in a match of n digits, with the counts up to MaxDigits and n - 1
FeedbackTexts(n) ==
    {CorrectText, NoCorrectDigitsText, AllCorrectText}
        \cup {CountText(k) : k \in {j \in 1..(n - 1) : j <= MaxDigits \/ j = n - 1}}

\* new AI(digits, allowDuplicates, difficulty), outside any match
Init ==
    /\ \E config \in SolverConfigs :
           /\ digits = config[1]
           /\ allowDuplicates = config[2]
    /\ difficulty \in Difficulties
    /\ candidates = generateAllCandidates(digits, allowDuplicates)
    /\ guessHistory = <<>>
    /\ mode = "solver"
    /\ playerSecret = <<>>
    /\ opponentSecret = <<>>
    /\ isPlayerTurn = TRUE
    /\ playerGuesses = 0
    /\ opponentGuesses = 0
    /\ isGameOver = FALSE
    /\ currentPlayer = 1
    /\ player1Guesses = 0
    /\ player2Guesses = 0
    /\ timeRemaining = 0
    /\ timerInterval = null
    /\ aiTurnPending = FALSE
    /\ gameOverCalls = <<>>
    /\ stats = NoStats
    /\ probe = NoProbe
    /\ guessCall = NoGuessCall
    /\ lastGuess = NoGuess
    /\ updateOutcome = NoUpdate
    /\ submitResult = NoSubmit
    /\ randomLoop = NoRandomLoop

\* AI.updateKnowledge(guess, feedback)
updateKnowledge(guess, feedback) ==
    /\ mode = "solver"
    /\ Len(guessHistory) < MaxCalls
    /\ guessHistory' = pushHistory(guessHistory, guess, feedback)
    /\ candidates' = filterCandidates(candidates, digits, guess, feedback)
    /\ updateOutcome' = updateKnowledgeOutcome
    /\ guessCall' = NoGuessCall
    /\ UNCHANGED <<digits, allowDuplicates, difficulty, gameVars, probe,
                   submitResult,
                   randomLoop>>

Next ==
    \E guess \in CallGuesses(digits), feedback \in FeedbackTexts(digits) :
        updateKnowledge(guess, feedback)

Spec == Init /\ [][Next]_vars

(***************************************************************************)
(* AI.randomGuess run draw by draw.  Game.generateAISecret has the same    *)
(* loops over the same fields.                                             *)
(***************************************************************************)
\* the digits Math.floor(Math.random() * 10).toString() can be
DrawnDigits == DigitChars

\* the draws followed: the two smallest digits not in used, and the digits
\* in used
followedDraws(used) ==
    LET fresh == DrawnDigits \ used
        smallest == {d \in fresh : \A e \in fresh : digitValue(d) <= digitValue(e)}
        second == {d \in fresh \ smallest :
                     \A e \in fresh \ smallest : digitValue(d) <= digitValue(e)}
    IN  smallest \cup second \cup used

\* the call of randomGuess: result = '', used = new Set(), and the for loop
\* is entered if 0 < this.digits
callRandomGuess ==
    /\ mode = "solver"
    /\ ~randomLoop.running
    /\ ~randomLoop.returned
    /\ randomLoop' = [running |-> 0 < digits, returned |-> ~(0 < digits),
                      result |-> <<>>, used |-> {}]
    /\ UNCHANGED <<aiVars, gameVars, probe, guessCall, submitResult>>

\* one pass of the do-while loop with the digit drawn: the loop repeats when
\* duplicates are disallowed and the digit is in used; otherwise the digit is
\* added to used and to the result, and the function returns after
\* this.digits digits
drawDigit(digit) ==
    /\ randomLoop.running
    /\ IF ~allowDuplicates /\ digit \in randomLoop.used
       THEN UNCHANGED randomLoop
       ELSE LET result == Append(randomLoop.result, digit)
            IN  randomLoop' =
                    [running |-> Len(result) < digits,
                     returned |-> ~(Len(result) < digits),
                     result |-> result,
                     used |-> randomLoop.used \cup {digit}]
    /\ UNCHANGED <<aiVars, gameVars, probe, guessCall, submitResult>>

NextRandom ==
    \/ callRandomGuess
    \/ \E digit \in followedDraws(randomLoop.used) : drawDigit(digit)

SpecRandom == Init /\ [][NextRandom]_vars

(***************************************************************************)
(* The solver asked for guesses: specification SpecGuess.                  *)
(***************************************************************************)
\* the digit counts and duplicate policies of the solvers asked for a guess:
\* those of the explored matches, three digits (spaces of more than 100
\* strings), and one more digit than there are digit characters
GuessConfigs ==
    (MatchDigits \X BOOLEAN)
        \cup {<<3, TRUE>>, <<3, FALSE>>} \cup {<<Len(DIGITS) + 1, FALSE>>}

\* new AI(digits, allowDuplicates, difficulty), outside any match
InitGuess ==
    /\ \E config \in GuessConfigs :
           /\ digits = config[1]
           /\ allowDuplicates = config[2]
    /\ difficulty \in Difficulties
    /\ candidates = generateAllCandidates(digits, allowDuplicates)
    /\ guessHistory = <<>>
    /\ mode = "solver"
    /\ playerSecret = <<>>
    /\ opponentSecret = <<>>
    /\ isPlayerTurn = TRUE
    /\ playerGuesses = 0
    /\ opponentGuesses = 0
    /\ isGameOver = FALSE
    /\ currentPlayer = 1
    /\ player1Guesses = 0
    /\ player2Guesses = 0
    /\ timeRemaining = 0
    /\ timerInterval = null
    /\ aiTurnPending = FALSE
    /\ gameOverCalls = <<>>
    /\ stats = NoStats
    /\ probe = NoProbe
    /\ guessCall = NoGuessCall
    /\ lastGuess = NoGuess
    /\ updateOutcome = NoUpdate
    /\ submitResult = NoSubmit
    /\ randomLoop = NoRandomLoop

\* AI.makeGuess(), called once between two updates as Game.aiTurn does.
\* When randomGuess cannot end, the call does not return.
makeGuessCall ==
    /\ mode = "solver"
    /\ ~guessCall.called
    /\ LET returned == makeGuess(candidates, guessHistory, digits,
                                 allowDuplicates, difficulty)
       IN  IF returned = {}
           THEN guessCall' = [called |-> TRUE, returns |-> FALSE,
                              value |-> <<>>]
           ELSE \E guess \in returned :
                    guessCall' = [called |-> TRUE, returns |-> TRUE,
                                  value |-> guess]
    /\ candidates' \in
           { candidatesAfterGuess(candidates, guessHistory, difficulty, r) :
               r \in Draws }
    /\ UNCHANGED <<digits, allowDuplicates, difficulty, guessHistory,
                   updateOutcome, gameVars, probe, submitResult,
                   randomLoop>>

\* the solvers of one and two digits are asked for a guess as built and after
\* up to MaxUpdates updates, those of three digits as built and after being
\* told that 000 shares no digit with the secret (more than 500 candidates
\* stay), the others as built
NextGuess ==
    \/ \E guess \in CallGuesses(digits), feedback \in FeedbackTexts(digits) :
           /\ digits \in MatchDigits
           /\ Len(guessHistory) < MaxUpdates
           /\ updateKnowledge(guess, feedback)
    \/ /\ digits = 3
       /\ guessHistory = <<>>
       /\ updateKnowledge(callGuess(3, digits), NoCorrectDigitsText)
    \/ makeGuessCall

SpecGuess == InitGuess /\ [][NextGuess]_vars

(***************************************************************************)
(* minimaxGuess on given spaces: specification SpecMinimax.                *)
(***************************************************************************)
\* the guess and feedback the spaces below are consistent with
ExampleHistory ==
    <<[guess |-> <<"1", "2", "6">>, feedback |-> CountText(2)]>>

\* three-digit strings that share two digits with 126
ExamplePool ==
    << <<"1", "2", "3">>, <<"1", "2", "4">>, <<"1", "2", "5">>,
       <<"1", "2", "7">>, <<"1", "6", "3">>, <<"2", "6", "4">>,
       <<"6", "1", "5">> >>

\* the members of ExamplePool that are in kept, in the pool's order
subList(kept) ==
    LET isKept(c) == c \in kept IN SelectSeq(ExamplePool, isKept)

\* a hard solver of three digits whose candidates are set to a part of the
\* pool, with one guess in its history
InitMinimax ==
    /\ digits = 3
    /\ allowDuplicates = FALSE
    /\ difficulty = "hard"
    /\ \E kept \in (SUBSET {ExamplePool[i] : i \in DOMAIN ExamplePool}) \ {{}} :
           candidates = subList(kept)
    /\ guessHistory = ExampleHistory
    /\ mode = "solver"
    /\ playerSecret = <<>>
    /\ opponentSecret = <<>>
    /\ isPlayerTurn = TRUE
    /\ playerGuesses = 0
    /\ opponentGuesses = 0
    /\ isGameOver = FALSE
    /\ currentPlayer = 1
    /\ player1Guesses = 0
    /\ player2Guesses = 0
    /\ timeRemaining = 0
    /\ timerInterval = null
    /\ aiTurnPending = FALSE
    /\ gameOverCalls = <<>>
    /\ stats = NoStats
    /\ probe = NoProbe
    /\ guessCall = NoGuessCall
    /\ lastGuess = NoGuess
    /\ updateOutcome = NoUpdate
    /\ submitResult = NoSubmit
    /\ randomLoop = NoRandomLoop

NextMinimax == makeGuessCall

SpecMinimax == InitMinimax /\ [][NextMinimax]_vars

(***************************************************************************)
(* A match.                                                                *)
(***************************************************************************)
\* the secrets a player can enter: the setup screen takes digits characters
\* and refuses a repeated digit when duplicates are disallowed
PlayerSecrets(n, dup) == {s \in InputStrings(n) : dup \/ noRepeat(s)}

\* options.opponentSecret: the secret player 2 entered between friends;
\* against the AI nothing, or any string
OptionSecrets(md, n, dup) ==
    IF md = "ai" THEN InputStrings(n) \cup {<<>>} ELSE PlayerSecrets(n, dup)

constructedOpponentSecret_keepsOption(md, option, n, dup) ==
    IF md = "ai" /\ option = <<>> THEN generateAISecret(n, dup) ELSE {option}

\* this.opponentSecret after the constructor: options.opponentSecret,
\* overwritten by generateAISecret() in AI mode
constructedOpponentSecret(md, option, n, dup) ==
    IF md = "ai" THEN generateAISecret(n, dup) ELSE {option}

\* new Game(options) followed by start()
InitGame ==
    /\ mode \in {"ai", "friend"}
    /\ digits \in MatchDigits
    /\ allowDuplicates \in BOOLEAN
    /\ difficulty \in Difficulties
    /\ playerSecret \in PlayerSecrets(digits, allowDuplicates)
    /\ \E option \in OptionSecrets(mode, digits, allowDuplicates) :
           opponentSecret \in constructedOpponentSecret(mode, option, digits,
                                                       allowDuplicates)
    /\ candidates =
         IF mode = "ai" THEN generateAllCandidates(digits, allowDuplicates)
         ELSE <<>>
    /\ guessHistory = <<>>
    /\ isPlayerTurn = TRUE
    /\ playerGuesses = 0
    /\ opponentGuesses = 0
    /\ isGameOver = FALSE
    /\ currentPlayer = 1
    /\ player1Guesses = 0
    /\ player2Guesses = 0
    /\ timeRemaining = calculateGameTime(digits, difficulty)
    /\ timerInterval = "interval"
    /\ aiTurnPending = FALSE
    /\ gameOverCalls = <<>>
    /\ stats = NoStats
    /\ probe = NoProbe
    /\ guessCall = NoGuessCall
    /\ lastGuess = NoGuess
    /\ updateOutcome = NoUpdate
    /\ submitResult = NoSubmit
    /\ randomLoop = NoRandomLoop

\* the guesses a player submits: the strings of the right length, and one
\* that is too short
PlayerGuesses(n) == InputStrings(n) \cup {<<>>}

\* the guesses submitted against the AI: one that is too short and the
\* string 11...  (the match compares a guess with opponentSecret only, so one
\* guess stands for every miss)
GuessesAgainstAI(n) == {<<>>, [i \in 1..n |-> "1"]}

NextGame ==
    \/ \E guess \in (IF mode = "ai" THEN GuessesAgainstAI(digits)
                      ELSE PlayerGuesses(digits)) \cup {opponentSecret} :
           /\ mode = "ai" => playerGuesses < MaxRounds
           /\ submitGuess(guess)
           /\ submitResult' = NoSubmit
    \/ aiTurn

SpecGame == InitGame /\ [][NextGame]_vars

(***************************************************************************)
(* Matches of one digit played to the guess limit.                         *)
(***************************************************************************)
InitLong == InitGame /\ digits = 1

\* the AI turns followed to the guess limit: the first guess of the AI is any
\* guess makeGuess can return, a later one repeats the guess before it (as
\* the random branch of easyGuess can) or is the player's secret
followedTurn ==
    \/ guessHistory' = guessHistory
    \/ guessHistory = <<>>
    \/ LET aiGuess == guessHistory'[Len(guessHistory')].guess
       IN  \/ aiGuess = guessHistory[Len(guessHistory)].guess
           \/ aiGuess = playerSecret

NextLong ==
    \/ \E guess \in PlayerGuesses(digits) \cup {opponentSecret} :
           /\ submitGuess(guess)
           /\ submitResult' = NoSubmit
    \/ aiTurn /\ followedTurn

SpecLongMatch == InitLong /\ [][NextLong]_vars

(***************************************************************************)
(* Matches of one digit played one after the other, with the statistics.   *)
(***************************************************************************)
InitStats == InitLong

\* App.startGame(playerSecret, opponentSecret) after a match is over: a new
\* Game is constructed with the settings as they are and any mode, and
\* started; the statistics in localStorage stay
startGame ==
    /\ isGameOver
    /\ Len(gameOverCalls) < MaxMatches
    /\ mode' \in {"ai", "friend"}
    /\ playerSecret' \in PlayerSecrets(digits, allowDuplicates)
    /\ \E option \in OptionSecrets(mode', digits, allowDuplicates) :
           opponentSecret' \in constructedOpponentSecret(mode', option, digits,
                                                        allowDuplicates)
    /\ candidates' =
         IF mode' = "ai" THEN generateAllCandidates(digits, allowDuplicates)
         ELSE <<>>
    /\ guessHistory' = <<>>
    /\ isPlayerTurn' = TRUE
    /\ playerGuesses' = 0
    /\ opponentGuesses' = 0
    /\ isGameOver' = FALSE
    /\ currentPlayer' = 1
    /\ player1Guesses' = 0
    /\ player2Guesses' = 0
    /\ timeRemaining' = calculateGameTime(digits, difficulty)
    /\ timerInterval' = "interval"
    /\ lastGuess' = NoGuess
    /\ updateOutcome' = NoUpdate
    /\ submitResult' = NoSubmit
    /\ aiTurnPending' = FALSE
    /\ UNCHANGED <<digits, allowDuplicates, difficulty, gameOverCalls, stats,
                   probe, guessCall, randomLoop>>

\* the click handler of reset-stats-btn, confirmed: Storage.resetStats
resetStats ==
    /\ stats' = NoStats
    /\ UNCHANGED <<aiVars, mode, playerSecret, opponentSecret, isPlayerTurn,
                   playerGuesses, opponentGuesses, isGameOver, currentPlayer,
                   player1Guesses, player2Guesses, timeRemaining,
                   timerInterval, aiTurnPending, gameOverCalls, lastGuess,
                   probe, guessCall, submitResult, randomLoop>>

NextStats ==
    \/ NextLong
    \/ startGame
    \/ isGameOver /\ resetStats

SpecStats == InitStats /\ [][NextStats]_vars

(***************************************************************************)
(* Matches of one digit on the clock.                                      *)
(***************************************************************************)
InitTimed == InitGame /\ digits = 1

\* a guess that submitGuess does not return on at once
guessIsTaken(guess) ==
    /\ ~isGameOver
    /\ ~(mode = "ai" /\ ~isPlayerTurn)
    /\ Len(guess) = digits

\* submitGuess is called in the last LastSeconds seconds of the match and
\* after it, and up to MaxTimedGuesses guesses of the side that guesses first
\* are taken; the AI's delayed turn and the ticks of the clock interleave
\* freely
NextTimed ==
    \/ \E guess \in PlayerGuesses(digits) \cup {opponentSecret} :
           /\ timeRemaining <= LastSeconds
           /\ guessIsTaken(guess)
                 => /\ playerGuesses < MaxTimedGuesses
                    /\ player1Guesses < MaxTimedGuesses \/ currentPlayer = 2
           /\ submitGuessCall(guess)
    \/ aiTurn
    \/ tick

SpecTimer == InitTimed /\ [][NextTimed]_vars

\* setInterval runs the callback every second while the interval is set
SpecTimerFair == SpecTimer /\ WF_vars(tick)

(***************************************************************************)
(* Matches between friends of every digit count, from construction, with   *)
(* the clock alone.                                                        *)
(***************************************************************************)
\* the digit counts a match can have
ClockDigits == 3..10

\* new Game(options) with mode 'friend'
InitClock ==
    /\ mode = "friend"
    /\ digits \in ClockDigits
    /\ allowDuplicates = FALSE
    /\ difficulty \in Difficulties
    /\ playerSecret = cyclicDigits(digits)
    /\ opponentSecret = callGuess(2, digits)
    /\ candidates = <<>>
    /\ guessHistory = <<>>
    /\ isPlayerTurn = TRUE
    /\ playerGuesses = 0
    /\ opponentGuesses = 0
    /\ isGameOver = FALSE
    /\ currentPlayer = 1
    /\ player1Guesses = 0
    /\ player2Guesses = 0
    /\ timeRemaining = calculateGameTime(digits, difficulty)
    /\ timerInterval = null
    /\ aiTurnPending = FALSE
    /\ gameOverCalls = <<>>
    /\ stats = NoStats
    /\ probe = NoProbe
    /\ guessCall = NoGuessCall
    /\ lastGuess = NoGuess
    /\ updateOutcome = NoUpdate
    /\ submitResult = NoSubmit
    /\ randomLoop = NoRandomLoop

NextClock == start \/ tick

SpecClock == InitClock /\ [][NextClock]_vars

(***************************************************************************)
(* Properties.                                                             *)
(***************************************************************************)
Range(seq) == {seq[i] : i \in DOMAIN seq}

\* the number of times the character d occurs in the string s
occurrences(d, s) == Cardinality({i \in DOMAIN s : s[i] = d})

\* a and b hold the same digits the same number of times
sameMultiset(a, b) ==
    \A d \in DigitChars : occurrences(d, a) = occurrences(d, b)

RECURSIVE sumOver(_, _, _)
sumOver(chars, a, b) ==
    IF chars = {} THEN 0
    ELSE LET d == CHOOSE c \in chars : TRUE
         IN  Min(occurrences(d, a), occurrences(d, b))
                 + sumOver(chars \ {d}, a, b)

\* the sum over the ten digit values of the smaller number of occurrences
sharedDigits(a, b) == sumOver(DigitChars, a, b)

\* the decimal numeral of a number below one hundred
numeral(k) ==
    IF k < 10 THEN <<DIGITS[k + 1]>>
    ELSE <<DIGITS[(k \div 10) + 1], DIGITS[(k % 10) + 1]>>

\* the two spellings of 'k digit(s) correct.'
countSpellings(k) ==
    { numeral(k) \o <<" ", "d", "i", "g", "i", "t", " ", "c", "o", "r", "r", "e", "c", "t", ".">>,
      numeral(k) \o <<" ", "d", "i", "g", "i", "t", "s", " ", "c", "o", "r", "r", "e", "c", "t", ".">> }

\* the legal strings of n digits under a duplicate policy
LegalStrings(n, dup) ==
    IF ~dup /\ n > Len(DIGITS) THEN {}
    ELSE {s \in StringsOver(DigitChars, n) : dup \/ noRepeat(s)}

RECURSIVE fallingProduct(_, _)
\* from * (from - 1) * ... over n factors
fallingProduct(from, n) ==
    IF n = 0 THEN 1 ELSE from * fallingProduct(from - 1, n - 1)

\* the first n characters of 1234567890
openerPrefix(n) == [i \in 1..n |-> DIGITS[(i % Len(DIGITS)) + 1]]

\* the feedback signature of a guess against a candidate: exact match, or the
\* number of shared digits
signature(g, c) == IF g = c THEN 0 - 1 ELSE sumOver(Range(g), g, c)

\* the largest number of members of a space that share one signature
largestBucket(g, space) ==
    LET signatures == <<>> \o [k \in DOMAIN space |-> signature(g, space[k])]
        sizes == { Cardinality({k \in DOMAIN space : signatures[k] = sg}) :
                     sg \in Range(signatures) }
    IN  CHOOSE m \in sizes : \A z \in sizes : z <= m

\* value is the first of the evaluated guesses whose largest bucket in the
\* space is the smallest
firstOfSmallestWorstCase(value, evaluated, space) ==
    LET tally == <<>> \o [i \in DOMAIN evaluated |->
                             largestBucket(evaluated[i], space)]
    IN  \E i \in DOMAIN evaluated :
            /\ evaluated[i] = value
            /\ \A j \in DOMAIN evaluated : tally[i] <= tally[j]
            /\ \A j \in 1..(i - 1) : tally[j] > tally[i]

\* C1: in a match against the AI, after every update whose guess differs
\* from the player's secret, the secret is a member of the candidate space.
C1_SecretStaysCandidate ==
    (/\ mode = "ai"
     /\ guessHistory # <<>>
     /\ guessHistory[Len(guessHistory)].guess # playerSecret)
        => playerSecret \in Range(candidates)

\* the AI has guessed twice without a win, was once told that all digits are
\* right but misplaced, and still holds the secret among fewer candidates
C1_Witness ==
    /\ mode = "ai"
    /\ Len(guessHistory) >= 2
    /\ guessHistory[Len(guessHistory)].guess # playerSecret
    /\ \E i \in DOMAIN guessHistory : guessHistory[i].feedback = AllCorrectText
    /\ playerSecret \in Range(candidates)
    /\ Len(candidates) < 10

\* C2: after any sequence of updateKnowledge calls the candidate space is
\* exactly the set of legal strings that, taken as the secret, give every
\* recorded guess its recorded feedback.
C2_CandidatesAreTheConsistentStrings ==
    mode = "solver" =>
        Range(candidates) =
            {c \in LegalStrings(digits, allowDuplicates) :
                \A i \in DOMAIN guessHistory :
                    calculateFeedback(digits, guessHistory[i].guess, c)
                        = guessHistory[i].feedback}

\* C3: an updateKnowledge call leaves a subset of the candidates it found,
\* no larger than before.
C3_CandidatesOnlyShrink ==
    [][/\ Range(candidates') \subseteq Range(candidates)
       /\ Len(candidates') <= Len(candidates)]_vars

\* two calls have left a space that is smaller than any initial one and not
\* empty
C3_Witness ==
    /\ mode = "solver"
    /\ Len(guessHistory) = 2
    /\ Len(candidates) > 0
    /\ Len(candidates) < 10

\* C4: at construction the candidate space holds every legal string exactly
\* once: 10^N strings with duplicates, 10*9*...*(10-N+1) without.
C4_InitialSpaceIsAllLegalStrings ==
    (mode = "solver" /\ guessHistory = <<>>) =>
        /\ Range(candidates) = LegalStrings(digits, allowDuplicates)
        /\ Cardinality(Range(candidates)) = Len(candidates)
        /\ Len(candidates) = IF allowDuplicates THEN 10 ^ digits
                             ELSE fallingProduct(10, digits)

\* a new solver of two digits without duplicates holds 90 candidates, from
\* 01 to 98
C4_Witness ==
    /\ mode = "solver"
    /\ guessHistory = <<>>
    /\ digits = 2
    /\ ~allowDuplicates
    /\ Len(candidates) = 90
    /\ candidates[1] = <<"0", "1">>
    /\ candidates[90] = <<"9", "8">>

\* C5: no solver exists that was built with duplicates disallowed and more
\* than ten digits; construction fails instead of leaving an empty space.
C5_NoSolverForMoreThanTenDistinctDigits ==
    ~ (/\ mode = "solver"
       /\ ~allowDuplicates
       /\ digits > 10
       /\ candidates = <<>>)

\* C6: calculateFeedback answers 'All digits correct but wrong arrangement.'
\* exactly when guess and secret hold the same digits the same number of
\* times and differ.
C6_AllCorrectIffAnagram ==
    probe.called =>
        ((probe.text = AllCorrectText)
            <=> (sameMultiset(probe.guess, probe.secret)
                    /\ probe.guess # probe.secret))

\* guess 511 against secret 115
C6_Witness ==
    /\ probe.called
    /\ probe.guess = <<"5", "1", "1">>
    /\ probe.secret = <<"1", "1", "5">>
    /\ probe.text = AllCorrectText

\* C7: for distinct strings the count reported is the sum over the digit
\* values of the smaller number of occurrences; the text is 'No correct
\* digits.' exactly when it is 0 and 'k digit(s) correct.' exactly when
\* 0 < k < N.
C7_CountIsSumOfMinima ==
    (probe.called /\ probe.guess # probe.secret) =>
        LET k == sharedDigits(probe.guess, probe.secret)
        IN  /\ probe.simulated = numeral(k)
            /\ (probe.text = NoCorrectDigitsText) <=> (k = 0)
            /\ (probe.text \in countSpellings(k)) <=> (0 < k /\ k < digits)
            /\ (\E j \in 0..12 : probe.text \in countSpellings(j))
                   => probe.text \in countSpellings(k)

\* guess 001 against secret 011: each digit counts once
C7_Witness ==
    /\ probe.called
    /\ probe.guess = <<"0", "0", "1">>
    /\ probe.secret = <<"0", "1", "1">>
    /\ probe.simulated = <<"2">>
    /\ probe.text \in countSpellings(2)

\* C8: the feedback of a string against itself is the exact match ('Correct!'
\* from calculateFeedback, 'WIN' from simulateFeedback), and no two distinct
\* strings give the exact match.
C8_ExactMatchIffEqual ==
    probe.called =>
        /\ (probe.text = CorrectText) <=> (probe.guess = probe.secret)
        /\ (probe.simulated = WIN) <=> (probe.guess = probe.secret)

\* 101 against itself
C8_Witness ==
    /\ probe.called
    /\ probe.guess = <<"1", "0", "1">>
    /\ probe.secret = probe.guess
    /\ probe.text = CorrectText
    /\ probe.simulated = WIN

\* C9: swapping guess and secret gives the same feedback.
C9_FeedbackIsSymmetric ==
    probe.called =>
        /\ probe.text = probe.textBack
        /\ probe.simulated = probe.simulatedBack

\* guess 002 against secret 012 shares two digits in either direction
C9_Witness ==
    /\ probe.called
    /\ probe.guess = <<"0", "0", "2">>
    /\ probe.secret = <<"0", "1", "2">>
    /\ probe.simulated = <<"2">>
    /\ probe.simulatedBack = <<"2">>
    /\ probe.text = probe.textBack

\* C10: the count the solver parses from the text of calculateFeedback is the
\* signature simulateFeedback gives for the same pair.
C10_ParsedFeedbackIsSimulatedFeedback ==
    probe.called =>
        /\ probe.simulated # WIN
        /\ parseInt(probe.simulated) = probe.count

\* C11: whenever the candidate space holds exactly one string, a call of
\* makeGuess returns that string, under each difficulty and every draw.
C11_SingleCandidateIsReturned ==
    (/\ mode = "solver"
     /\ guessCall.called
     /\ Len(candidates) = 1)
        => (guessCall.returns /\ guessCall.value = candidates[1])

\* C12: a call of makeGuess leaves the candidate space, contents and order,
\* and the guess history as they were, under every difficulty and on the
\* minimax path that samples the space.
C12_MakeGuessLeavesTheSolver ==
    [][(~guessCall.called /\ guessCall'.called)
          => (candidates' = candidates /\ guessHistory' = guessHistory)]_vars

\* the minimax path has sampled a space of more than 50 candidates
C12_Witness ==
    /\ mode = "solver"
    /\ difficulty = "hard"
    /\ guessCall.called
    /\ guessCall.returns
    /\ Len(candidates) > 50
    /\ Len(candidates) <= 100
    /\ guessCall.value \in Range(candidates)

\* C13: with an empty candidate space, makeGuess returns under every
\* difficulty, and what it returns is a legal string of N digits under the
\* duplicate policy.
C13_EmptySpaceGivesRandomLegalGuess ==
    (/\ mode = "solver"
     /\ guessCall.called
     /\ candidates = <<>>)
        => /\ guessCall.returns
           /\ guessCall.value \in LegalStrings(digits, allowDuplicates)

\* C14: whatever makeGuess returns is a string of exactly N characters
\* '0'..'9' that repeats no digit when duplicates are disallowed.
C14_ReturnedGuessIsLegal ==
    (mode = "solver" /\ guessCall.called /\ guessCall.returns)
        => /\ Len(guessCall.value) = digits
           /\ \A i \in DOMAIN guessCall.value : guessCall.value[i] \in DigitChars
           /\ allowDuplicates \/ noRepeat(guessCall.value)

\* easy has returned a random string outside a non-empty space of distinct
\* digits
C14_Witness ==
    /\ mode = "solver"
    /\ difficulty = "easy"
    /\ ~allowDuplicates
    /\ digits = 2
    /\ guessCall.returns
    /\ candidates # <<>>
    /\ guessCall.value \notin Range(candidates)

\* C15: under medium, a guess returned while the candidate space is not empty
\* is a member of the space.
C15_MediumGuessesFromTheSpace ==
    (/\ mode = "solver"
     /\ difficulty = "medium"
     /\ guessCall.called
     /\ guessCall.returns
     /\ candidates # <<>>)
        => guessCall.value \in Range(candidates)

\* medium has returned a member of a space narrowed by an update, other than
\* its first
C15_Witness ==
    /\ mode = "solver"
    /\ difficulty = "medium"
    /\ guessHistory # <<>>
    /\ guessCall.returns
    /\ Len(candidates) >= 2
    /\ guessCall.value \in Range(candidates)
    /\ guessCall.value # candidates[1]

C17_MinimaxReturnsFirstBest ==
    (/\ mode = "solver"
     /\ difficulty = "hard"
     /\ guessCall.called
     /\ guessCall.returns
     /\ Len(candidates) >= 2
     /\ Len(candidates) <= 500
     /\ ~(guessHistory = <<>> /\ Len(candidates) > 100))
        => IF Len(candidates) <= 50
           THEN firstOfSmallestWorstCase(guessCall.value, candidates, candidates)
           ELSE \E r \in Draws :
                    firstOfSmallestWorstCase(guessCall.value,
                        sampleArray(candidates, 50, r), candidates)

\* minimax has passed over the first candidate, 00, of the space of two
\* digits for 01, which has a smaller worst case
C17_Witness ==
    /\ mode = "solver"
    /\ difficulty = "hard"
    /\ digits = 2
    /\ guessCall.returns
    /\ Len(candidates) >= 2
    /\ candidates[1] = <<"0", "0">>
    /\ guessCall.value = <<"0", "1">>
    /\ largestBucket(guessCall.value, candidates)
           < largestBucket(candidates[1], candidates)

\* the space 123, 124, 125 of the worked example
ExampleSpace ==
    << <<"1", "2", "3">>, <<"1", "2", "4">>, <<"1", "2", "5">> >>

\* C18 as stated: on the space 123, 124, 125 with a non-empty history, every
\* one of the three candidates puts the other two into different feedback
\* buckets and so has worst-case bucket size 1.
C18_EachGuessSeparatesTheOtherTwo ==
    (/\ mode = "solver"
     /\ difficulty = "hard"
     /\ guessHistory # <<>>
     /\ candidates = ExampleSpace
     /\ guessCall.called)
        => \A g \in Range(candidates) :
               /\ \A c1, c2 \in Range(candidates) \ {g} :
                      c1 # c2 => simulateFeedback(g, c1) # simulateFeedback(g, c2)
               /\ worstCaseOf(g, candidates) = 1

\* C18 as amended: on that space every one of the three candidates gets the
\* feedback 2 from both of the others, so each has worst-case bucket size 2,
\* all three are equally good, and minimax, having evaluated all three in
\* order, returns the first, 123.
C18_EachGuessLeavesTheOtherTwoTogether ==
    (/\ mode = "solver"
     /\ difficulty = "hard"
     /\ guessHistory # <<>>
     /\ candidates = ExampleSpace
     /\ guessCall.called)
        => /\ \A g \in Range(candidates) :
                  /\ \A c \in Range(candidates) \ {g} :
                         simulateFeedback(g, c) = <<"2">>
                  /\ simulateFeedback(g, g) = WIN
                  /\ worstCaseOf(g, candidates) = 2
           /\ guessCall.returns
           /\ guessCall.value = candidates[1]

\* minimax has been run on the space of the example
C18_Witness ==
    /\ mode = "solver"
    /\ difficulty = "hard"
    /\ digits = 3
    /\ guessHistory # <<>>
    /\ candidates = ExampleSpace
    /\ guessCall.called
    /\ guessCall.value = <<"1", "2", "3">>

\* C19: after updateKnowledge(guess, feedback) the guess is not in the
\* candidate space, whatever the feedback and whether or not the guess was a
\* candidate before.
C19_GuessLeavesTheSpace ==
    (mode = "solver" /\ guessHistory # <<>>)
        => guessHistory[Len(guessHistory)].guess \notin Range(candidates)

\* a guess that was a candidate, reported with all of its digits right, has
\* left a space that is not empty
C19_Witness ==
    /\ mode = "solver"
    /\ Len(guessHistory) = 1
    /\ guessHistory[1].guess \in LegalStrings(digits, allowDuplicates)
    /\ guessHistory[1].feedback = AllCorrectText
    /\ candidates # <<>>
    /\ guessHistory[1].guess \notin Range(candidates)

\* C20: every updateKnowledge call appends exactly one pair (guess, feedback)
\* at the end of the history and leaves the earlier entries as they were, so
\* the length of the history counts the calls made on the solver.
C20_HistoryIsAppendOnly ==
    [][/\ Len(guessHistory') = Len(guessHistory) + 1
       /\ SubSeq(guessHistory', 1, Len(guessHistory)) = guessHistory
       /\ \E guess \in CallGuesses(digits), feedback \in FeedbackTexts(digits) :
              guessHistory'[Len(guessHistory')] =
                  [guess |-> guess, feedback |-> feedback]]_vars

\* two calls with different guesses and feedbacks are in the history in the
\* order they were made
C20_Witness ==
    /\ mode = "solver"
    /\ Len(guessHistory) = 2
    /\ guessHistory[1].guess = <<"0", "1">>
    /\ guessHistory[1].feedback = NoCorrectDigitsText
    /\ guessHistory[2].guess = <<"1", "0">>
    /\ guessHistory[2].feedback = CorrectText

\* an outcome of updateKnowledge that tells the caller of an error: a value
\* returned, an error thrown, or a line logged
signalsError(outcome) ==
    \/ outcome.returns # "undefined"
    \/ outcome.throws
    \/ outcome.logs # <<>>

\* C21: an updateKnowledge call that empties a space that was not empty, on a
\* feedback that does not report an exact match, signals an error to its
\* caller.
C21_EmptiedSpaceIsSignalled ==
    [][(/\ mode = "solver"
        /\ candidates # <<>>
        /\ candidates' = <<>>
        /\ guessHistory'[Len(guessHistory')].feedback # CorrectText)
          => signalsError(updateOutcome')]_vars

\* C22: in a match against the AI, once the solver has been updated with the
\* feedback of an exact match, it is never asked for a guess or updated again
\* (aiTurn is the only caller of both, and always makes the two calls
\* together).
C22_SolverRestsAfterExactMatch ==
    [][(/\ mode = "ai"
        /\ guessHistory # <<>>
        /\ guessHistory[Len(guessHistory)].feedback = CorrectText)
          => UNCHANGED <<guessHistory, candidates, updateOutcome>>]_vars

\* the AI found the secret with its second guess and the match is over
C22_Witness ==
    /\ mode = "ai"
    /\ Len(guessHistory) = 2
    /\ guessHistory[2].guess = playerSecret
    /\ guessHistory[2].feedback = CorrectText
    /\ updateOutcome.called
    /\ isGameOver
    /\ ~aiTurnPending

\* the guesses made by the side that guesses first and by the other side
firstSideGuesses == IF mode = "ai" THEN playerGuesses ELSE player1Guesses

secondSideGuesses == IF mode = "ai" THEN opponentGuesses ELSE player2Guesses

\* the secret the last reported guess was aimed at
lastTarget == IF lastGuess.by = "player" THEN opponentSecret ELSE playerSecret

winners == {gameOverCalls[i].winner : i \in DOMAIN gameOverCalls}

\* C23: in every state of a match no side has made more than 10 guesses:
\* playerGuesses and opponentGuesses against the AI, player1Guesses and
\* player2Guesses between friends.
C23_NoSideGuessesMoreThanTen ==
    mode \in {"ai", "friend"}
        => /\ playerGuesses <= 10
           /\ opponentGuesses <= 10
           /\ player1Guesses <= 10
           /\ player2Guesses <= 10

\* against the AI both sides have used their ten guesses
C23_Witness ==
    /\ mode = "ai"
    /\ playerGuesses = 10
    /\ opponentGuesses = 10
    /\ isGameOver

\* C24: a match has ended in a draw exactly when both sides have made 10
\* guesses and the last of them missed (an earlier hit would have ended the
\* match); so the draw is declared by the second side's failed 10th guess,
\* against the AI and between friends.
C24_DrawExactlyAtTenMissesEach ==
    mode \in {"ai", "friend"}
        => (("draw" \in winners)
              <=> (/\ firstSideGuesses = 10
                   /\ secondSideGuesses = 10
                   /\ lastGuess.guess # lastTarget))

\* between friends player 2 missed with the tenth guess and the match is
\* drawn
C24_Witness ==
    /\ mode = "friend"
    /\ player1Guesses = 10
    /\ player2Guesses = 10
    /\ lastGuess.by = "opponent"
    /\ lastGuess.guess # playerSecret
    /\ isGameOver
    /\ gameOverCalls = <<[winner |-> "draw", reason |-> null,
                          totalGuesses |-> 0]>>

\* C25: against the AI the guesses alternate, the player first: a guess
\* submitted while the AI is due is not taken, so the AI is never ahead and
\* the player never more than one guess ahead; the player is one ahead while
\* the AI's turn is pending and level when the turn is the player's.
C25_GuessesAlternate ==
    mode = "ai"
        => /\ opponentGuesses <= playerGuesses
           /\ playerGuesses <= opponentGuesses + 1
           /\ (aiTurnPending /\ ~isGameOver)
                  => (~isPlayerTurn /\ playerGuesses = opponentGuesses + 1)
           /\ (isPlayerTurn /\ ~isGameOver)
                  => (~aiTurnPending /\ playerGuesses = opponentGuesses)

\* the player has guessed twice, the AI once, and the AI's second turn is
\* pending
C25_Witness ==
    /\ mode = "ai"
    /\ aiTurnPending
    /\ ~isPlayerTurn
    /\ ~isGameOver
    /\ playerGuesses = 2
    /\ opponentGuesses = 1

\* C26: a guess that equals the secret it is aimed at has ended the match at
\* once with its guesser as the winner; and a match that ended otherwise than
\* by timeout with the winner 'player' ('opponent') ended on a guess of the
\* player or player 1 (of the AI or player 2) that equals opponentSecret
\* (playerSecret).
C26_WinnerIsWhoGuessedTheSecret ==
    mode \in {"ai", "friend"}
        => /\ (lastGuess.by # "none" /\ lastGuess.guess = lastTarget)
                  => /\ isGameOver
                     /\ Len(gameOverCalls) = 1
                     /\ gameOverCalls[1].winner = lastGuess.by
                     /\ gameOverCalls[1].reason = null
           /\ \A i \in DOMAIN gameOverCalls :
                  gameOverCalls[i].reason = null
                      => /\ gameOverCalls[i].winner = "player"
                             => lastGuess =
                                    [by |-> "player", guess |-> opponentSecret]
                         /\ gameOverCalls[i].winner = "opponent"
                             => lastGuess =
                                    [by |-> "opponent", guess |-> playerSecret]

\* between friends player 2 has guessed the secret of player 1 with the
\* second guess and is the winner
C26_Witness ==
    /\ mode = "friend"
    /\ player1Guesses = 2
    /\ player2Guesses = 2
    /\ lastGuess = [by |-> "opponent", guess |-> playerSecret]
    /\ isGameOver
    /\ winners = {"opponent"}

\* the integer nearest to num / den, the upper one of two equally near
nearestInteger(num, den) ==
    CHOOSE k \in 0..num :
        /\ 2 * (den * k - num) <= den
        /\ 2 * (num - den * k) < den

\* 60 * round(2 * digits * m), with m = 1.2, 1.0, 0.8 written as 12, 10 and 8
\* tenths
timeBank(dg, diff) ==
    LET tenths == IF diff = "easy" THEN 12 ELSE IF diff = "medium" THEN 10 ELSE 8
    IN  60 * nearestInteger(2 * dg * tenths, 10)

\* C27: for every digit count from 3 to 10 and every difficulty the time
\* bank computed by the match is 60 * round(2 * digits * m) seconds, a match
\* that has not been started has this time remaining, and the clock never
\* shows more.
C27_TimeBankIsSixtyTimesRoundedMinutes ==
    /\ \A dg \in 3..10, diff \in Difficulties :
           calculateGameTime(dg, diff) = timeBank(dg, diff)
    /\ mode = "friend"
           => /\ (timerInterval = null /\ ~isGameOver)
                     => timeRemaining = timeBank(digits, difficulty)
              /\ timeRemaining <= timeBank(digits, difficulty)

\* a match of 4 digits on easy has just been started: 9.6 minutes rounded
\* to 10
C27_Witness ==
    /\ mode = "friend"
    /\ digits = 4
    /\ difficulty = "easy"
    /\ timerInterval # null
    /\ ~isGameOver
    /\ timeRemaining = 600

\* C28: while the one-second timer keeps ticking, a match whose timer is
\* running eventually is over, by a win, a draw or a timeout.
C28_RunningMatchEnds == (timerInterval # null) ~> isGameOver

\* nobody guessed and the clock ran out
C28_Witness ==
    /\ mode = "friend"
    /\ player1Guesses = 0
    /\ timeRemaining = 0
    /\ timerInterval = null
    /\ isGameOver
    /\ Len(gameOverCalls) = 1
    /\ gameOverCalls[1].reason = "timeout"

\* the side that is due to guess: against the AI the player when
\* isPlayerTurn holds and the AI otherwise, between friends the player
\* currentPlayer names.  Nothing changes either field once the match is over.
sideDue ==
    IF mode = "ai" THEN (IF isPlayerTurn THEN "player" ELSE "opponent")
    ELSE (IF currentPlayer = 1 THEN "player" ELSE "opponent")

\* C29: a match that ended by timeout was lost by the side that was due to
\* guess: the winner is 'opponent' if the player (player 1) was due and
\* 'player' if the AI (player 2) was due.
C29_TimeoutLosesTheSideDue ==
    mode \in {"ai", "friend"}
        => \A i \in DOMAIN gameOverCalls :
               gameOverCalls[i].reason = "timeout"
                   => gameOverCalls[i].winner =
                          IF sideDue = "player" THEN "opponent" ELSE "player"

\* C30: however the ticks of the clock, the guesses submitted and the delayed
\* turn of the AI interleave, onGameOver is called at most once in a match.
C30_GameOverIsReportedOnce == Len(gameOverCalls) <= 1

\* the clock ran out while the AI's turn was pending, and the delayed turn
\* has run since without guessing
C30_Witness ==
    /\ mode = "ai"
    /\ playerGuesses = 1
    /\ opponentGuesses = 0
    /\ ~isPlayerTurn
    /\ ~aiTurnPending
    /\ isGameOver
    /\ gameOverCalls = <<[winner |-> "player", reason |-> "timeout",
                          totalGuesses |-> 1]>>

\* C31: once the match is over no event changes it: a guess submitted and an
\* AI turn still pending leave the guess counters, the turn, the time
\* remaining, the solver's candidates and history as they are and report no
\* guess and no second game over, and the clock is stopped.
C31_NothingChangesAfterGameOver ==
    [][isGameOver
         => /\ timerInterval = null
            /\ UNCHANGED <<playerGuesses, opponentGuesses, player1Guesses,
                           player2Guesses, isPlayerTurn, currentPlayer,
                           timeRemaining, timerInterval, candidates,
                           guessHistory, updateOutcome, lastGuess,
                           gameOverCalls, isGameOver>>]_vars

\* the clock ran out while the AI's turn was pending; the delayed turn has
\* run since and left the counters, the turn, the solver and the last
\* reported guess as they were
C31_Witness ==
    /\ mode = "ai"
    /\ isGameOver
    /\ winners = {"player"}
    /\ ~aiTurnPending
    /\ ~isPlayerTurn
    /\ playerGuesses = 1
    /\ opponentGuesses = 0
    /\ guessHistory = <<>>
    /\ candidates = generateAllCandidates(digits, allowDuplicates)
    /\ ~updateOutcome.called
    /\ lastGuess.by = "player"
    /\ timeRemaining = 0
    /\ timerInterval = null

\* C32: the totalGuesses reported to onGameOver is the number of guesses
\* taken from both sides in the match (the counters stand still once the
\* match is over), against the AI and between friends, however the match
\* ended.
C32_TotalGuessesCountsBothSides ==
    mode \in {"ai", "friend"}
        => \A i \in DOMAIN gameOverCalls :
               gameOverCalls[i].totalGuesses =
                   firstSideGuesses + secondSideGuesses

\* what a step that is a call of submitGuess with a guess of the wrong length
\* leaves as it was: everything but the value returned
rejectedGuessChangesNothing == UNCHANGED <<aiVars, gameVars, probe, guessCall, randomLoop>>

wrongLengthCall ==
    /\ submitResult'.called
    /\ Len(submitResult'.guess) # digits

\* C33 as stated: every call of submitGuess with a guess of the wrong length
\* returns the error result and changes nothing.
C33_WrongLengthIsAlwaysRejected ==
    [][wrongLengthCall
         => /\ submitResult'.returns = "{valid: false}"
            /\ rejectedGuessChangesNothing]_vars

\* C33: a call of submitGuess with a guess of the wrong length changes
\* nothing; it returns the error result while the match is running and the
\* turn is not the AI's, and returns nothing when the match is over or the
\* AI's turn is pending.
C33_WrongLengthIsRejectedWhenTaken ==
    [][wrongLengthCall
         => /\ rejectedGuessChangesNothing
            /\ IF isGameOver \/ (mode = "ai" /\ ~isPlayerTurn)
               THEN submitResult'.returns = "undefined"
               ELSE /\ submitResult'.returns = "{valid: false}"
                    /\ submitResult'.error = "Invalid length"]_vars

\* after one guess of each side the player has submitted a guess that is too
\* short and got the error result
C33_Witness ==
    /\ mode = "ai"
    /\ ~isGameOver
    /\ isPlayerTurn
    /\ playerGuesses = 1
    /\ opponentGuesses = 1
    /\ ~aiTurnPending
    /\ submitResult = returnsInvalid(<<>>)

\* the guesses of a history, in order
guessesOf(history) == [i \in DOMAIN history |-> history[i].guess]

\* C34: in a match against a medium or hard AI every turn of the AI that
\* finds its space not empty leaves it with fewer candidates, and the AI's
\* guesses are pairwise different.
C34_MediumAndHardNeverRepeat ==
    [][(/\ mode = "ai"
        /\ difficulty \in {"medium", "hard"}
        /\ guessHistory' # guessHistory)
          => /\ candidates # <<>> => Len(candidates') < Len(candidates)
             /\ noRepeat(guessesOf(guessHistory'))]_vars

\* a hard AI has made two different guesses at a two-digit secret, neither
\* of them right, and its space has shrunk both times
C34_Witness ==
    /\ mode = "ai"
    /\ difficulty = "hard"
    /\ digits = 2
    /\ Len(guessHistory) = 2
    /\ guessHistory[1].guess # guessHistory[2].guess
    /\ guessHistory[2].guess # playerSecret
    /\ candidates # <<>>
    /\ Len(candidates) + 2 <= Len(generateAllCandidates(digits, allowDuplicates))

\* C35: a hard solver of 1 to 10 digits whose space is not empty returns a
\* member of the space, whichever tier chooses the guess: the one candidate
\* left, the opener, the minimax search or, with more than 500 candidates
\* after the first guess, the random pick.  The opener is a string of
\* N different digits for every N, so it is in every full space.
C35_HardGuessIsACandidate ==
    /\ \A n \in 1..10 :
           getOptimalFirstGuess(n) \in LegalStrings(n, FALSE)
    /\ (/\ mode = "solver"
        /\ difficulty = "hard"
        /\ digits <= 10
        /\ candidates # <<>>
        /\ guessCall.called)
           => /\ guessCall.returns
              /\ guessCall.value \in Range(candidates)

\* a hard solver of three digits with more than 500 candidates after its
\* first update has picked one of them
C35_Witness ==
    /\ mode = "solver"
    /\ difficulty = "hard"
    /\ digits = 3
    /\ guessHistory # <<>>
    /\ Len(candidates) > 500
    /\ guessCall.returns
    /\ guessCall.value \in Range(candidates)

\* C36: in every solver that can be constructed, a run of randomGuess that
\* is in its loops can draw a digit that ends the pass (so that the run ends
\* under fair draws), and a run that has returned has returned a legal string
\* of N digits.
C36_RandomGuessCanAlwaysGoOn ==
    /\ randomLoop.running
           => \E digit \in DrawnDigits :
                  allowDuplicates \/ digit \notin randomLoop.used
    /\ randomLoop.returned
           => randomLoop.result \in LegalStrings(digits, allowDuplicates)

\* C37: against the AI the opponent's secret is a string of N digits, without
\* a repeated digit when duplicates are disallowed, whatever secret was
\* passed to the constructor, and no step of the match changes it.
C37_GeneratedSecretIsLegalAndFixed ==
    [][mode = "ai"
         => /\ opponentSecret \in LegalStrings(digits, allowDuplicates)
            /\ opponentSecret' = opponentSecret
            /\ \A option \in OptionSecrets(mode, digits, allowDuplicates) :
                   constructedOpponentSecret(mode, option, digits,
                                             allowDuplicates)
                       = generateAISecret(digits, allowDuplicates)]_vars

\* a match of two different digits against the AI is over and the AI's
\* secret is the one generated
C37_Witness ==
    /\ mode = "ai"
    /\ digits = 2
    /\ ~allowDuplicates
    /\ opponentSecret = <<"5", "0">>
    /\ opponentGuesses = 2
    /\ isGameOver

\* the number added to a counter of the statistics
countedWhen(cond) == IF cond THEN 1 ELSE 0

\* C38: when a match ends, gamesPlayed and exactly one of wins, losses and
\* draws go up by one, wins for the winner 'player', losses for 'opponent' and
\* draws for 'draw', and wins + losses + draws = gamesPlayed whatever matches
\* and resets came before
C38_StatsReflectOutcome ==
    [][/\ stats'.wins + stats'.losses + stats'.draws = stats'.gamesPlayed
       /\ Len(gameOverCalls') = Len(gameOverCalls) + 1
             => LET winner == gameOverCalls'[Len(gameOverCalls')].winner
                IN  /\ stats'.gamesPlayed = stats.gamesPlayed + 1
                    /\ stats'.wins
                         = stats.wins + countedWhen(winner = "player")
                    /\ stats'.losses
                         = stats.losses + countedWhen(winner = "opponent")
                    /\ stats'.draws
                         = stats.draws + countedWhen(winner = "draw")]_vars

====
